---------------------------- MODULE Spec2Model ----------------------------
(***************************************************************************)
(* Model of the chunking + embedding + retrieval pipeline of the           *)
(* document-rag-app backend (rag-backend/app/core/embeddings.py and        *)
(* rag-backend/app/api/{query,ingestion,document_select}.py).              *)
(*                                                                         *)
(* Seven specifications:                                                   *)
(*   SpecChunk    chunk_text                   (embeddings.py 45-109)      *)
(*   SpecEmbed    generate_embeddings + retry  (embeddings.py 136-267)     *)
(*   SpecQuery    _process_query               (query.py 53-232)           *)
(*   SpecScan     _process_query on tables large enough for the cap of     *)
(*                the candidate scan           (query.py 53-232)           *)
(*   SpecStore    upload_document, delete_document and list_documents on   *)
(*                the table  (ingestion.py 41-157, document_select.py)     *)
(*   SpecProcess  process_document, running chunk_text and then            *)
(*                generate_embeddings          (embeddings.py 269-325)     *)
(*   SpecConcurrent  two upload requests interleaved at their awaits       *)
(*                (ingestion.py 41-157, embeddings.py 186-325)             *)
(* The variables of the components a specification does not run stay at    *)
(* their idle values.                                                      *)
(*                                                                         *)
(* Texts are modelled by their token sequences: a text of T tokens is the  *)
(* index range 0..T-1, and a chunk is the half-open index range [lo, hi)   *)
(* of the token slice it was decoded from.                                 *)
(***************************************************************************)
EXTENDS Integers, Sequences, FiniteSets, TLC

VARIABLES
    \* ---- chunk_text ----
    ck_pc,            \* "idle" | "call" | "loop" | "done"
    ck_text,          \* the text argument, as its sequence of characters
    ck_total_tokens,  \* len(encoding.encode(text))
    ck_chunk_size_arg,\* the chunk_size argument (None when omitted)
    ck_overlap_arg,   \* the overlap argument (None when omitted)
    ck_chunk_size,    \* chunk_size after line 67
    ck_overlap,       \* overlap after line 68
    ck_i,             \* the window start i
    ck_chunks,        \* chunks, as token index ranges [lo, hi)
    ck_stats,         \* the stats dictionary returned
    \* ---- generate_embeddings ----
    ge_pc,            \* "idle" | "call" | "single" | "batch" | "sleep"
                      \* | "next" | "returned" | "raised"
    ge_chunks,        \* the chunks argument
    ge_batch_size_arg,\* the batch_size argument (None when omitted)
    ge_batch_size,    \* batch_size after line 208
    ge_validated,     \* validated_chunks
    ge_i,             \* the batch start index i of line 238
    ge_embeddings,    \* embeddings, the vectors accumulated so far
    ge_result,        \* the list generate_embeddings returned
    ge_error,         \* the exception generate_embeddings raised
    ge_requests,      \* every batch sent to client.embeddings.create
    ge_sleeps,        \* number of asyncio.sleep(0.1) delays taken
    ge_failures,      \* number of attempts at the service that failed
    \* ---- _create_embeddings_with_retry, the call in progress ----
    rt_state,         \* "idle" | "running" | "returned" | "raised"
    rt_log,           \* its attempts: [raw |-> outcome, raised |-> kind]
    rt_error,         \* the exception that left the wrapper
    \* ---- _process_query ----
    q_pc,             \* "idle" | "call" | "scan" | "answer" | "done"
    q_store,          \* the document_embeddings table, in storage order
    q_k,              \* the k of the request
    q_document_ids,   \* the document_ids of the request (<<>>: none given)
    q_include_chunks, \* the include_chunks of the request (read on
                      \* line 221 only, and drawn there)
    q_query_vec,      \* query_vec
    q_all_docs,       \* all_docs, the candidates fetched
    q_scanned,        \* how many of all_docs the scan loop has taken
    q_valid_docs,     \* valid_docs
    q_valid_embeddings, \* valid_embeddings
    q_skipped_count,  \* skipped_count
    q_results,        \* results, the (score, doc) pairs
    q_top_chunks,     \* top_chunks
    q_llm,            \* how the chat completion call of line 200 ended:
                      \* "none" (not made) | "ok" | "failed"
    q_exc,            \* the exception raised inside the try of line 57
    q_response,       \* what the request ended in
    \* ---- the document_embeddings table under upload, delete and list ----
    st_store,         \* the records, in insertion order
    st_next_id,       \* the next value of the id column
    st_requests,      \* number of upload, delete and list requests handled
    st_response,      \* what the last request ended in
    st_documents,     \* the document list of the last request, if it was
                      \* answered with one
    st_content,       \* what the last request read from the uploaded file,
                      \* if it did
    st_processed,     \* whether the last request called process_document
                      \* and how many chunks it got back
    \* ---- process_document ----
    pd_pc,            \* "idle" | "call" | "chunking" | "embedding"
                      \* | "done" | "raised"
    pd_content,       \* the content argument: None, a str or bytes
    pd_chunk_size,    \* the chunk_size argument
    pd_chunk_overlap, \* the chunk_overlap argument
    pd_batch_size,    \* the batch_size argument
    pd_text_content,  \* text_content
    pd_result,        \* the (text_chunks, embeddings, stats) returned
    pd_error,         \* the exception raised
    \* ---- upload requests in flight at the same time ----
    up_req            \* for each request, where its coroutine stands and
                      \* the values of its local variables

ck_vars == <<ck_pc, ck_text, ck_total_tokens, ck_chunk_size_arg,
             ck_overlap_arg, ck_chunk_size, ck_overlap, ck_i, ck_chunks,
             ck_stats>>

ge_vars == <<ge_pc, ge_chunks, ge_batch_size_arg, ge_batch_size,
             ge_validated, ge_i, ge_embeddings, ge_result, ge_error,
             ge_requests, ge_sleeps, ge_failures>>

rt_vars == <<rt_state, rt_log, rt_error>>

q_vars == <<q_pc, q_store, q_k, q_document_ids, q_include_chunks,
            q_query_vec, q_all_docs, q_scanned, q_valid_docs,
            q_valid_embeddings, q_skipped_count, q_results, q_top_chunks,
            q_llm, q_exc, q_response>>

st_vars ==
    <<st_store, st_next_id, st_requests, st_response, st_documents,
      st_content, st_processed>>

pd_vars == <<pd_pc, pd_content, pd_chunk_size, pd_chunk_overlap,
             pd_batch_size, pd_text_content, pd_result, pd_error>>

up_vars == <<up_req>>

vars == <<ck_vars, ge_vars, rt_vars, q_vars, st_vars, pd_vars, up_vars>>

---------------------------------------------------------------------------
(* Bounds of the model *)

MaxTokens == 5
MaxChunkSize == 3
MaxOverlap == 3
MaxInputChunks == 3
MaxBatchSize == 3
MaxDocs == 3
MaxK == 2
MaxScanDocs == 7
MaxBatchedChunks == 6
MaxInsertFailures == 1
MaxRequests == 3
MaxUploadChunks == 2
MaxContentLen == 2

(* Program constants *)

\* Optional[int] = None: an omitted argument
None == -1
\* settings.CHUNK_SIZE
CHUNK_SIZE == 1000
\* settings.CHUNK_OVERLAP
CHUNK_OVERLAP == 200
\* settings.EMBEDDING_BATCH_SIZE
EMBEDDING_BATCH_SIZE == 20
\* the literal 5 of min(settings.EMBEDDING_BATCH_SIZE, 5)
DEFAULT_BATCH_CAP == 5
MAX_TOKENS_PER_CHUNK == 8191
MAX_RETRIES == 3
\* query.limit(500)
FETCH_LIMIT == 500
\* max_valid_docs = min(k * 5, 100)
CAP_FACTOR == 5
CAP_MAX == 100
\* Similarity scores are kept in units of 10^-5
SCORE_SCALE == 100000

---------------------------------------------------------------------------
(* Helpers *)

Min(a, b) == IF a <= b THEN a ELSE b
Max(a, b) == IF a >= b THEN a ELSE b

\* Python truthiness of an Optional[int]: None and 0 are falsy
Falsy(x) == x = None \/ x = 0

\* Python's `x or d`
OrDefault(x, d) == IF Falsy(x) THEN d ELSE x

\* Python's normalisation of one slice bound against a sequence of length n
PyIdx(x, n) == IF x < 0 THEN Max(x + n, 0) ELSE Min(x, n)

\* tokens[a:b] for a sequence of n tokens, as the index range [lo, hi)
Slice(a, b, n) ==
    LET lo == PyIdx(a, n)
        hi == PyIdx(b, n)
    IN  [lo |-> lo, hi |-> Max(lo, hi)]

\* len(tokens[a:b])
SliceLen(s) == s.hi - s.lo

---------------------------------------------------------------------------
(* The idle values of each component's variables *)

\* A quotient num / den
Fraction(num, den) == [num |-> num, den |-> den]

\* embeddings.py lines 64 and 307: the statistics of a call that stops
\* before chunking
ZERO_STATS ==
    [total_tokens |-> 0, chunk_count |-> 0,
     avg_chunk_tokens |-> Fraction(0, 1)]

IdleChunk ==
    /\ ck_pc = "idle"
    /\ ck_text = <<>>
    /\ ck_total_tokens = 0
    /\ ck_chunk_size_arg = None
    /\ ck_overlap_arg = None
    /\ ck_chunk_size = 0
    /\ ck_overlap = 0
    /\ ck_i = 0
    /\ ck_chunks = <<>>
    /\ ck_stats = ZERO_STATS

IdleEmbed ==
    /\ ge_pc = "idle"
    /\ ge_chunks = <<>>
    /\ ge_batch_size_arg = None
    /\ ge_batch_size = 0
    /\ ge_validated = <<>>
    /\ ge_i = 0
    /\ ge_embeddings = <<>>
    /\ ge_result = <<>>
    /\ ge_error = "none"
    /\ ge_requests = <<>>
    /\ ge_sleeps = 0
    /\ ge_failures = 0
    /\ rt_state = "idle"
    /\ rt_log = <<>>
    /\ rt_error = "none"

NoException == [status |-> 0, detail |-> "none"]

NoResponse ==
    [status |-> 0, answer |-> "", detail |-> "", has_chunks |-> FALSE,
     chunks |-> <<>>]

IdleQuery ==
    /\ q_pc = "idle"
    /\ q_store = <<>>
    /\ q_k = 0
    /\ q_document_ids = <<>>
    /\ q_include_chunks = FALSE
    /\ q_query_vec = <<>>
    /\ q_all_docs = <<>>
    /\ q_scanned = 0
    /\ q_valid_docs = <<>>
    /\ q_valid_embeddings = <<>>
    /\ q_skipped_count = 0
    /\ q_results = <<>>
    /\ q_top_chunks = <<>>
    /\ q_llm = "none"
    /\ q_exc = NoException
    /\ q_response = NoResponse

\* content = None
NoContent == [kind |-> "none", data |-> <<>>]

\* process_document not called
NotProcessed == [called |-> FALSE, chunks |-> 0]

\* No request handled yet
NoRequest ==
    [op |-> "none", filename |-> "", status |-> 0, count |-> 0, detail |-> ""]

IdleStore ==
    /\ st_store = <<>>
    /\ st_next_id = 1
    /\ st_requests = 0
    /\ st_response = NoRequest
    /\ st_documents = <<>>
    /\ st_content = NoContent
    /\ st_processed = NotProcessed

\* Nothing returned yet
NoResult == [chunks |-> <<>>, embeddings |-> <<>>, stats |-> ZERO_STATS]

\* The two upload requests that run on the one event loop
Requests == {1, 2}

\* A request that has not arrived
NoUpload ==
    [pc |-> "idle", n |-> 0, batch_size |-> 0, i |-> 0, attempts |-> 0,
     embeddings |-> <<>>, result |-> <<>>, failed |-> {},
     response |-> NoRequest]

IdleUploads == up_req = [r \in Requests |-> NoUpload]

IdleProcess ==
    /\ pd_pc = "idle"
    /\ pd_content = NoContent
    /\ pd_chunk_size = None
    /\ pd_chunk_overlap = None
    /\ pd_batch_size = None
    /\ pd_text_content = <<>>
    /\ pd_result = NoResult
    /\ pd_error = "none"

---------------------------------------------------------------------------
(* validate_chunk_length and prepare_chunks_for_embedding,                 *)
(* embeddings.py 111-156.  A chunk text is [id, lo, ntok]: the decoding of *)
(* the ntok tokens from position lo on of what encoding.encode gives for   *)
(* chunk id of the input (an input chunk itself has lo = 0).               *)

\* line 131 keeping the last tokens: tokens[-MAX_TOKENS_PER_CHUNK:]
TruncatedTail(ntok) == Slice(0 - MAX_TOKENS_PER_CHUNK, ntok, ntok)

\* line 131: truncated_tokens = tokens[:MAX_TOKENS_PER_CHUNK]
TruncatedTokens(ntok) == Slice(0, MAX_TOKENS_PER_CHUNK, ntok)

\* lines 122-134: (is_valid, truncated_chunk); truncated is <<>> for None
ValidateChunkLength(chunk) ==
    IF chunk.ntok <= MAX_TOKENS_PER_CHUNK
    THEN [is_valid |-> TRUE, truncated |-> <<>>]
    ELSE LET truncated_tokens == TruncatedTokens(chunk.ntok)
         IN  [is_valid |-> FALSE,
              truncated |-> <<[id |-> chunk.id,
                               lo |-> chunk.lo + truncated_tokens.lo,
                               ntok |-> SliceLen(truncated_tokens)]>>]

\* lines 149-154: what one chunk contributes to validated_chunks
PrepareChunk(chunk) ==
    LET v == ValidateChunkLength(chunk)
    IN  IF v.is_valid THEN <<chunk>> ELSE v.truncated

RECURSIVE PrepareChunksForEmbedding(_)
\* lines 147-156
PrepareChunksForEmbedding(chunks) ==
    IF chunks = <<>> THEN <<>>
    ELSE PrepareChunk(Head(chunks)) \o PrepareChunksForEmbedding(Tail(chunks))

---------------------------------------------------------------------------
(* _create_embeddings_with_retry, embeddings.py 159-184 *)

\* What one attempt of client.embeddings.create under asyncio.wait_for ends in
AttemptOutcomes ==
    {"ok", "RateLimitError", "APITimeoutError", "APIConnectionError",
     "asyncio.TimeoutError", "BadRequestError"}

\* lines 173-184: the exception the body of the wrapper raises for a failure
RaisedBy(raw) ==
    IF raw = "asyncio.TimeoutError" THEN "APITimeoutError" ELSE raw

\* line 162 with the exception filter dropped
RetryOnAnyException(exc) == TRUE

\* line 162: retry_if_exception_type((RateLimitError, APITimeoutError,
\* APIConnectionError))
IsRetryable(exc) ==
    exc \in {"RateLimitError", "APITimeoutError", "APIConnectionError"}

\* line 160 with an off-by-one in the attempt count
StopAfterOneMore(attempt_number) == attempt_number > MAX_RETRIES

\* line 160: stop_after_attempt(MAX_RETRIES)
StopAfterAttempt(attempt_number) == attempt_number >= MAX_RETRIES

\* line 170: the service answers with one vector per input item, in order
EmbeddingOf(text) == [vector_of |-> text]

\* response.data for a batch
ResponseData(batch) == [j \in 1..Len(batch) |-> EmbeddingOf(batch[j])]

---------------------------------------------------------------------------
(* generate_embeddings, embeddings.py 186-267 *)

\* line 239 with the slice end one too far
BatchOverlapping(validated, i, batch_size) ==
    SubSeq(validated, i + 1, Min(i + batch_size + 1, Len(validated)))

\* line 239: batch = validated_chunks[i:i+batch_size]
Batch(validated, i, batch_size) ==
    SubSeq(validated, i + 1, Min(i + batch_size, Len(validated)))

\* line 238 with a step of one chunk instead of one batch
NextBatchStartByOne(i, batch_size) == i + 1

\* line 238: for i in range(0, len(validated_chunks), batch_size)
NextBatchStart(i, batch_size) == i + batch_size

\* line 257 without the test for a further batch
SleepAfterFullBatch(batch, i, batch_size, n) == Len(batch) = batch_size

\* line 257: the delay is taken after a full batch that is not the last
SleepCond(batch, i, batch_size, n) ==
    Len(batch) = batch_size /\ i + batch_size < n

\* lines 226-231 and 264-267: the exception the caller of
\* generate_embeddings sees when the wrapper raised exc.  The fast path has
\* no handler; the handler of the batched path evaluates the name
\* HTTPException, which embeddings.py never imports.
Propagated(path, exc) ==
    IF path = "single" THEN exc ELSE "NameError"

\* The condition lines 264-267 are written to raise
EMBEDDING_FAILED == "HTTPException(500, Failed to generate embeddings)"

\* The token counts a chunk of the input may have
TokenCounts == {1, MAX_TOKENS_PER_CHUNK, MAX_TOKENS_PER_CHUNK + 1}

InputChunks ==
    UNION {[1..n -> TokenCounts] : n \in 0..MaxInputChunks}

InitEmbed ==
    /\ IdleUploads
    /\ IdleProcess
    /\ IdleChunk
    /\ IdleQuery
    /\ IdleStore
    /\ ge_pc = "call"
    /\ \E ntoks \in InputChunks :
         ge_chunks =
            [j \in 1..Len(ntoks) |-> [id |-> j, lo |-> 0, ntok |-> ntoks[j]]]
    /\ ge_batch_size_arg \in {None} \cup (0..MaxBatchSize)
    /\ ge_batch_size = 0
    /\ ge_validated = <<>>
    /\ ge_i = 0
    /\ ge_embeddings = <<>>
    /\ ge_result = <<>>
    /\ ge_error = "none"
    /\ ge_requests = <<>>
    /\ ge_sleeps = 0
    /\ ge_failures = 0
    /\ rt_state = "idle"
    /\ rt_log = <<>>
    /\ rt_error = "none"

\* lines 202-234: the empty return, the defaults, the validation, and the
\* choice between the fast path and the batch loop
GenerateCall ==
    /\ ge_pc = "call"
    /\ IF ge_chunks = <<>>
       THEN /\ ge_pc' = "returned"
            /\ ge_result' = <<>>
            /\ UNCHANGED <<ge_batch_size, ge_validated, rt_state>>
       ELSE LET validated == PrepareChunksForEmbedding(ge_chunks)
            IN  /\ ge_batch_size' =
                     OrDefault(ge_batch_size_arg,
                               Min(EMBEDDING_BATCH_SIZE, DEFAULT_BATCH_CAP))
                /\ ge_validated' = validated
                /\ ge_pc' = IF Len(validated) = 1 THEN "single" ELSE "batch"
                /\ rt_state' = "running"
                /\ UNCHANGED ge_result
    /\ ge_i' = 0
    /\ ge_embeddings' = <<>>
    /\ rt_log' = <<>>
    /\ rt_error' = "none"
    /\ UNCHANGED <<ge_chunks, ge_batch_size_arg, ge_error, ge_requests,
                   ge_sleeps, ge_failures>>
    /\ UNCHANGED <<ck_vars, q_vars, st_vars, pd_vars, up_vars>>

\* The batch of the call in progress
CurrentBatch ==
    IF ge_pc = "single" THEN ge_validated
    ELSE Batch(ge_validated, ge_i, ge_batch_size)

\* lines 165-172 succeed; then lines 231, or lines 252-262
AttemptOk ==
    /\ ge_pc \in {"single", "batch"}
    /\ rt_state = "running"
    /\ LET batch == CurrentBatch
           data == ResponseData(batch)
       IN  /\ rt_log' = Append(rt_log, [raw |-> "ok", raised |-> "none"])
           /\ ge_requests' = Append(ge_requests, batch)
           /\ rt_state' = "returned"
           /\ IF ge_pc = "single"
              THEN /\ ge_result' = <<data[1]>>
                   /\ ge_pc' = "returned"
                   /\ UNCHANGED ge_embeddings
              ELSE /\ ge_embeddings' = ge_embeddings \o data
                   /\ IF SleepCond(batch, ge_i, ge_batch_size,
                                   Len(ge_validated))
                      THEN /\ ge_pc' = "sleep"
                           /\ UNCHANGED ge_result
                      ELSE IF ge_i + ge_batch_size < Len(ge_validated)
                      THEN /\ ge_pc' = "next"
                           /\ UNCHANGED ge_result
                      ELSE /\ ge_pc' = "returned"
                           /\ ge_result' = ge_embeddings \o data
    /\ UNCHANGED <<ge_chunks, ge_batch_size_arg, ge_batch_size, ge_validated,
                   ge_i, ge_error, ge_sleeps, ge_failures, rt_error>>
    /\ UNCHANGED <<ck_vars, q_vars, st_vars, pd_vars, up_vars>>

\* lines 165-184 fail; then the retry decision of lines 159-164, and when
\* the wrapper gives up, lines 226-231 or 264-267
AttemptFail ==
    /\ ge_pc \in {"single", "batch"}
    /\ rt_state = "running"
    /\ \E raw \in AttemptOutcomes \ {"ok"} :
         LET exc == RaisedBy(raw)
             attempt_number == Len(rt_log) + 1
         IN  /\ rt_log' = Append(rt_log, [raw |-> raw, raised |-> exc])
             /\ ge_requests' = Append(ge_requests, CurrentBatch)
             /\ ge_failures' = ge_failures + 1
             /\ IF IsRetryable(exc) /\ ~StopAfterAttempt(attempt_number)
                THEN UNCHANGED <<rt_state, rt_error, ge_pc, ge_error>>
                ELSE /\ rt_state' = "raised"
                     /\ rt_error' = exc
                     /\ ge_pc' = "raised"
                     /\ ge_error' = Propagated(ge_pc, exc)
    /\ UNCHANGED <<ge_chunks, ge_batch_size_arg, ge_batch_size, ge_validated,
                   ge_i, ge_embeddings, ge_result, ge_sleeps>>
    /\ UNCHANGED <<ck_vars, q_vars, st_vars, pd_vars, up_vars>>

\* line 258 when the delay was due, then line 238: the loop moves to the
\* next batch and its call starts
NextBatch ==
    /\ ge_pc \in {"sleep", "next"}
    /\ ge_pc' = "batch"
    /\ ge_i' = NextBatchStart(ge_i, ge_batch_size)
    /\ ge_sleeps' = IF ge_pc = "sleep" THEN ge_sleeps + 1 ELSE ge_sleeps
    /\ rt_state' = "running"
    /\ rt_log' = <<>>
    /\ rt_error' = "none"
    /\ UNCHANGED <<ge_chunks, ge_batch_size_arg, ge_batch_size, ge_validated,
                   ge_embeddings, ge_result, ge_error, ge_requests,
                   ge_failures>>
    /\ UNCHANGED <<ck_vars, q_vars, st_vars, pd_vars, up_vars>>

NextEmbed ==
    \/ GenerateCall
    \/ AttemptOk
    \/ AttemptFail
    \/ NextBatch

SpecEmbed == InitEmbed /\ [][NextEmbed]_vars

---------------------------------------------------------------------------
(* chunk_text, embeddings.py 45-109.  The text is kept as its characters; *)
(* what the tokenizer makes of it is its number of tokens.                 *)

\* line 92 with the sign of the overlap slipped
StrideSignSlip(chunk_size, overlap) == chunk_size + overlap

\* line 92: i += (chunk_size - overlap)
Stride(chunk_size, overlap) == chunk_size - overlap

\* line 84: chunk_end = min(i + chunk_size, total_tokens)
ChunkEnd(i, chunk_size, total_tokens) == Min(i + chunk_size, total_tokens)

\* line 94: if i >= total_tokens - overlap and i < total_tokens
TailCond(i, overlap, total_tokens) ==
    i >= total_tokens - overlap /\ i < total_tokens

\* The loop is unbounded when the stride is not positive; a run with a
\* positive stride appends at most total_tokens + 1 chunks.
LoopCap == MaxTokens + 2

\* The characters of the model's texts: a space and a letter
Chars == {" ", "a"}

\* The short texts of the model, the empty text among them
ShortTexts == UNION {[1..n -> Chars] : n \in 0..MaxTokens}

\* A text long enough for chunks of the default size
LongText == [j \in 1..2500 |-> "a"]

\* lines 75-76: the values len(encoding.encode(text)) may have.  Only the
\* empty text encodes to no token; the byte-pair encoding gives a text
\* at least one token and at most one per character, and the model
\* draws the counts up to MaxTokens and the count of one per character.
TokenCountsOf(text) ==
    IF text = <<>> THEN {0}
    ELSE {n \in 1..Len(text) : n <= MaxTokens \/ n = Len(text)}

RECURSIVE SumOfLens(_)
\* sum(chunk_token_counts)
SumOfLens(chunks) ==
    IF chunks = <<>> THEN 0
    ELSE SliceLen(Head(chunks)) + SumOfLens(Tail(chunks))

\* lines 101-107: the stats of a call that went through the loop
ChunkStats(total_tokens, chunks) ==
    LET counts == {SliceLen(chunks[c]) : c \in 1..Len(chunks)}
    IN  [total_tokens |-> total_tokens,
         chunk_count |-> Len(chunks),
         avg_chunk_tokens |->
            IF chunks # <<>> THEN Fraction(SumOfLens(chunks), Len(chunks))
            ELSE Fraction(0, 1),
         min_chunk_tokens |->
            IF chunks # <<>>
            THEN CHOOSE m \in counts : \A o \in counts : m <= o
            ELSE 0,
         max_chunk_tokens |->
            IF chunks # <<>>
            THEN CHOOSE m \in counts : \A o \in counts : m >= o
            ELSE 0]

InitChunk ==
    /\ IdleUploads
    /\ IdleProcess
    /\ IdleEmbed
    /\ IdleQuery
    /\ IdleStore
    /\ ck_pc = "call"
    /\ ck_text \in ShortTexts \cup {LongText}
    /\ ck_total_tokens = 0
    /\ ck_chunk_size_arg \in {None} \cup (0..MaxChunkSize)
    /\ ck_overlap_arg \in {None} \cup (0..MaxOverlap)
    /\ ck_chunk_size = 0
    /\ ck_overlap = 0
    /\ ck_i = 0
    /\ ck_chunks = <<>>
    /\ ck_stats = ZERO_STATS

\* lines 63-81: the empty-text return, the defaults, the tokenisation
ChunkCall ==
    /\ ck_pc = "call"
    /\ IF ck_text = <<>>
       THEN /\ ck_pc' = "done"
            /\ ck_stats' = ZERO_STATS
            /\ UNCHANGED <<ck_chunk_size, ck_overlap, ck_total_tokens>>
       ELSE /\ ck_pc' = "loop"
            /\ ck_chunk_size' = OrDefault(ck_chunk_size_arg, CHUNK_SIZE)
            /\ ck_overlap' = OrDefault(ck_overlap_arg, CHUNK_OVERLAP)
            /\ ck_total_tokens' \in TokenCountsOf(ck_text)
            /\ UNCHANGED ck_stats
    /\ ck_i' = 0
    /\ ck_chunks' = <<>>
    /\ UNCHANGED <<ck_text, ck_chunk_size_arg, ck_overlap_arg>>
    /\ UNCHANGED <<ge_vars, rt_vars, q_vars, st_vars, pd_vars, up_vars>>

\* lines 82-98: one iteration of the while loop
ChunkLoop ==
    /\ ck_pc = "loop"
    /\ ck_i < ck_total_tokens
    /\ Len(ck_chunks) < LoopCap
    /\ LET chunk_end == ChunkEnd(ck_i, ck_chunk_size, ck_total_tokens)
           chunk_tokens == Slice(ck_i, chunk_end, ck_total_tokens)
           next_i == ck_i + Stride(ck_chunk_size, ck_overlap)
       IN  /\ ck_i' = next_i
           /\ IF TailCond(next_i, ck_overlap, ck_total_tokens)
              THEN /\ ck_chunks' = ck_chunks \o
                        <<chunk_tokens,
                          Slice(next_i, ck_total_tokens, ck_total_tokens)>>
                   /\ ck_stats' = ChunkStats(ck_total_tokens, ck_chunks')
                   /\ ck_pc' = "done"
              ELSE /\ ck_chunks' = Append(ck_chunks, chunk_tokens)
                   /\ ck_pc' = "loop"
                   /\ UNCHANGED ck_stats
    /\ UNCHANGED <<ck_text, ck_total_tokens, ck_chunk_size_arg,
                   ck_overlap_arg, ck_chunk_size, ck_overlap>>
    /\ UNCHANGED <<ge_vars, rt_vars, q_vars, st_vars, pd_vars, up_vars>>

\* line 82 false, lines 100-109: the loop ends and chunk_text returns
ChunkReturn ==
    /\ ck_pc = "loop"
    /\ ck_i >= ck_total_tokens
    /\ ck_pc' = "done"
    /\ ck_stats' = ChunkStats(ck_total_tokens, ck_chunks)
    /\ UNCHANGED <<ck_text, ck_total_tokens, ck_chunk_size_arg,
                   ck_overlap_arg, ck_chunk_size, ck_overlap, ck_i,
                   ck_chunks>>
    /\ UNCHANGED <<ge_vars, rt_vars, q_vars, st_vars, pd_vars, up_vars>>

NextChunk ==
    \/ ChunkCall
    \/ ChunkLoop
    \/ ChunkReturn

SpecChunk == InitChunk /\ [][NextChunk]_vars

---------------------------------------------------------------------------
(* Stored vectors and their decoding, query.py 123-131.  A stored          *)
(* embedding is either a native list, [kind |-> "list", items |-> <<..>>], *)
(* or a JSON string, [kind |-> "str", text |-> <<..>>] with the text as    *)
(* its sequence of JSON tokens.  Vector components are integers.           *)

\* The number literals that occur in stored JSON text, with their values
NumberLiterals ==
    ("0" :> 0) @@ ("1" :> 1) @@ ("2" :> 2) @@ ("3" :> 3) @@ ("4" :> 4)
    @@ ("5" :> 5) @@ ("12" :> 12)

IsNumberToken(tok) == tok \in DOMAIN NumberLiterals

\* The literal json.dumps writes for a number
LiteralOf(n) == CHOOSE tok \in DOMAIN NumberLiterals : NumberLiterals[tok] = n

RECURSIVE JsonItems(_)
\* json.dumps of the items of a list, without the brackets
JsonItems(items) ==
    IF items = <<>> THEN <<>>
    ELSE IF Len(items) = 1 THEN <<LiteralOf(items[1])>>
    ELSE <<LiteralOf(items[1]), ",">> \o JsonItems(Tail(items))

\* json.dumps(list), the old storage format
JsonDumps(items) == <<"[">> \o JsonItems(items) \o <<"]">>

RECURSIVE ParseItems(_)
\* The items of "n, n, ..., n"; [ok |-> FALSE] when the text is not that
ParseItems(text) ==
    IF text = <<>> THEN [ok |-> FALSE, items |-> <<>>]
    ELSE IF ~IsNumberToken(text[1]) THEN [ok |-> FALSE, items |-> <<>>]
    ELSE IF Len(text) = 1
         THEN [ok |-> TRUE, items |-> <<NumberLiterals[text[1]]>>]
    ELSE IF text[2] # "," THEN [ok |-> FALSE, items |-> <<>>]
    ELSE LET rest == ParseItems(SubSeq(text, 3, Len(text)))
         IN  [ok |-> rest.ok,
              items |-> IF rest.ok
                        THEN <<NumberLiterals[text[1]]>> \o rest.items
                        ELSE <<>>]

\* line 127: json.loads(doc.embedding).  type is "list" or "number";
\* ok is FALSE when json.loads raises.
JsonLoads(text) ==
    IF Len(text) = 1 /\ IsNumberToken(text[1])
    THEN [ok |-> TRUE, type |-> "number", items |-> <<NumberLiterals[text[1]]>>]
    ELSE IF Len(text) >= 2 /\ text[1] = "[" /\ text[Len(text)] = "]"
    THEN IF Len(text) = 2
         THEN [ok |-> TRUE, type |-> "list", items |-> <<>>]
         ELSE LET inner == ParseItems(SubSeq(text, 2, Len(text) - 1))
              IN  [ok |-> inner.ok, type |-> "list", items |-> inner.items]
    ELSE [ok |-> FALSE, type |-> "none", items |-> <<>>]

\* lines 125-131 calling json.loads on every stored value: a native list
\* makes json.loads raise
DecodeAlwaysJsonLoads(embedding) ==
    IF embedding.kind = "str"
    THEN LET v == JsonLoads(embedding.text)
         IN  IF v.ok /\ v.type = "list"
             THEN [ok |-> TRUE, vec |-> v.items]
             ELSE [ok |-> FALSE, vec |-> <<>>]
    ELSE [ok |-> FALSE, vec |-> <<>>]

\* lines 125-131 without the isinstance(doc.embedding, str) branch: a
\* stored string is not taken for a vector
DecodeListsOnly(embedding) ==
    IF embedding.kind = "str"
    THEN [ok |-> FALSE, vec |-> <<>>]
    ELSE [ok |-> TRUE, vec |-> embedding.items]

\* lines 125-134: doc_vec with a len(), or ok = FALSE when json.loads or
\* len(doc_vec) raises (np.array of a bare number has no len())
Decode(embedding) ==
    IF embedding.kind = "str"
    THEN LET v == JsonLoads(embedding.text)
         IN  IF v.ok /\ v.type = "list"
             THEN [ok |-> TRUE, vec |-> v.items]
             ELSE [ok |-> FALSE, vec |-> <<>>]
    ELSE [ok |-> TRUE, vec |-> embedding.items]

NativeList(items) == [kind |-> "list", items |-> items]
JsonString(text) == [kind |-> "str", text |-> text]

\* The query vector the embedding service returns
QueryVec == <<1, 0>>

\* The stored embeddings of the model: vectors of the query's dimension in
\* both formats (one of them in both), vectors of another dimension, and
\* strings that do not decode to a vector
StoredEmbeddings ==
    {NativeList(<<1, 0>>),
     JsonString(JsonDumps(<<1, 0>>)),
     NativeList(<<5, 12>>),
     JsonString(JsonDumps(<<4, 3, 0>>)),
     JsonString(<<"[", "1", ",">>)}

Filenames == {"a.pdf", "b.pdf"}

---------------------------------------------------------------------------
(* Similarity and ranking, query.py 149-190 *)

RECURSIVE Dot(_, _)
Dot(u, v) ==
    IF u = <<>> \/ v = <<>> THEN 0
    ELSE u[1] * v[1] + Dot(Tail(u), Tail(v))

\* The integer square root
ISqrt(n) == CHOOSE r \in 0..n : r * r <= n /\ (r + 1) * (r + 1) > n

\* line 156: sklearn's cosine_similarity of two vectors, in units of
\* 10^-5 (a zero vector scores 0)
CosineSimilarity(u, v) ==
    LET nu == ISqrt(Dot(u, u))
        nv == ISqrt(Dot(v, v))
    IN  IF nu * nv = 0 THEN 0
        ELSE (Dot(u, v) * SCORE_SCALE) \div (nu * nv)

\* lines 178, 187: round(score, 4), in units of 10^-4
Round4(score) == (score + 5) \div 10

\* line 114 without the k * 5 term
MaxValidDocsFixed(k) == CAP_MAX

\* line 114: max_valid_docs = min(k * 5, 100)
MaxValidDocs(k) == Min(k * CAP_FACTOR, CAP_MAX)

RECURSIVE InsertBeforeEqual(_, _)
\* line 176 as an ascending sort that is then reversed: r goes before the
\* elements with a score equal to its own
InsertBeforeEqual(r, sorted) ==
    IF sorted = <<>> THEN <<r>>
    ELSE IF sorted[1].score <= r.score THEN <<r>> \o sorted
    ELSE <<sorted[1]>> \o InsertBeforeEqual(r, Tail(sorted))

RECURSIVE InsertDescending(_, _)
\* line 176: where a stable descending sort puts r, taken after the
\* elements of sorted: behind every element with a score >= its own
InsertDescending(r, sorted) ==
    IF sorted = <<>> THEN <<r>>
    ELSE IF sorted[1].score < r.score THEN <<r>> \o sorted
    ELSE <<sorted[1]>> \o InsertDescending(r, Tail(sorted))

RECURSIVE SortResults(_)
\* line 176: results.sort(key=lambda x: x[0], reverse=True)
SortResults(results) ==
    IF results = <<>> THEN <<>>
    ELSE LET n == Len(results)
         IN  InsertDescending(results[n], SortResults(SubSeq(results, 1, n - 1)))

\* line 177: results[:k]
TopResults(sorted, k) == SubSeq(sorted, 1, PyIdx(k, Len(sorted)))

\* lines 181-190: SearchResult(id, filename, chunk_id, score)
SearchResult(r) ==
    [id |-> r.doc.id, filename |-> r.doc.filename,
     chunk_id |-> r.doc.chunk_id, score |-> Round4(r.score)]

---------------------------------------------------------------------------
(* _process_query, query.py 53-232 *)

MISMATCH_ANSWER == "dimension mismatch"
FALLBACK_ANSWER == "couldn't generate a complete answer"
NOT_FOUND_DETAIL == "No document embeddings found with the given criteria"

\* A response with status 200
Ok200(answer, has_chunks, chunks) ==
    [status |-> 200, answer |-> answer, detail |-> "",
     has_chunks |-> has_chunks, chunks |-> chunks]

\* The response FastAPI gives for an HTTPException that leaves the handler
HttpError(status, detail) ==
    [status |-> status, answer |-> "", detail |-> detail,
     has_chunks |-> FALSE, chunks |-> <<>>]

\* raise HTTPException(status_code, detail), lines 93 and 173
HttpException(status, detail) == [status |-> status, detail |-> detail]

\* raise Exception(detail), lines 75 and 99
Exception(detail) == [status |-> 0, detail |-> detail]

EMBED_FAILED_DETAIL == "Failed to generate query embedding"
FETCH_FAILED_DETAIL == "Failed to fetch document embeddings"

\* lines 229-232: every exception raised inside the try of line 57, the
\* HTTPException of lines 93 and 173 included, is caught by `except
\* Exception` and leaves as a 500 whose detail quotes it
OuterHandler(exc) == HttpError(500, <<"Search + answer failed", exc.detail>>)

LLM_FAILED_DETAIL == "LLM API call failed"

\* lines 197-227 without the try of line 197: a failure of the chat
\* completion call reaches the handler of lines 229-232
AnswerFailureRaises(llm_ok, include_chunks, top_chunks) ==
    IF llm_ok
    THEN Ok200("generated answer", include_chunks,
               IF include_chunks THEN top_chunks ELSE <<>>)
    ELSE OuterHandler(Exception(LLM_FAILED_DETAIL))

\* lines 197-227: the answer of the chat completion call, or the fixed
\* message of line 217 when the call raises, and the response with the
\* chunks when include_chunks is set
AnswerResponse(llm_ok, include_chunks, top_chunks) ==
    Ok200(IF llm_ok THEN "generated answer" ELSE FALLBACK_ANSWER,
          include_chunks,
          IF include_chunks THEN top_chunks ELSE <<>>)

\* lines 79-89 with the filename filter dropped
FetchUnfiltered(store, document_ids) ==
    SubSeq(store, 1, Min(Len(store), FETCH_LIMIT))

\* lines 79-89: the candidates of the lookup
FetchDocs(store, document_ids) ==
    IF Len(document_ids) > 0
    THEN SelectSeq(store,
                   LAMBDA d : \E j \in 1..Len(document_ids) :
                                 d.filename = document_ids[j])
    ELSE SubSeq(store, 1, Min(Len(store), FETCH_LIMIT))

\* A table of the model: ids in storage order, chunk_id counting the
\* earlier records of the same filename
StoreOf(filenames, embeddings) ==
    [j \in 1..Len(filenames) |->
       [id |-> j,
        filename |-> filenames[j],
        chunk_id |-> Cardinality({h \in 1..(j - 1) : filenames[h] = filenames[j]}),
        embedding |-> embeddings[j]]]

\* The filename column of a table of n records left by an upload of a.pdf
\* followed by an upload of b.pdf: the chunks of an upload are inserted
\* one after the other (ingestion.py 102-121)
UploadedFilenames(n) ==
    {[j \in 1..n |-> IF j <= split THEN "a.pdf" ELSE "b.pdf"] : split \in 0..n}

InitQuery ==
    /\ IdleUploads
    /\ IdleProcess
    /\ IdleChunk
    /\ IdleEmbed
    /\ IdleStore
    /\ q_pc = "call"
    /\ \E n \in 0..MaxDocs :
         \E fn \in UploadedFilenames(n), em \in [1..n -> StoredEmbeddings] :
            q_store = StoreOf(fn, em)
    /\ q_k \in 0..MaxK
    /\ q_document_ids \in {<<>>, <<"a.pdf">>}
    /\ q_include_chunks = FALSE
    /\ q_query_vec = <<>>
    /\ q_all_docs = <<>>
    /\ q_scanned = 0
    /\ q_valid_docs = <<>>
    /\ q_valid_embeddings = <<>>
    /\ q_skipped_count = 0
    /\ q_results = <<>>
    /\ q_top_chunks = <<>>
    /\ q_llm = "none"
    /\ q_exc = NoException
    /\ q_response = NoResponse

\* lines 57-115: the query is embedded and the candidates are fetched
QueryStart ==
    /\ q_pc = "call"
    /\ \E embed_ok \in BOOLEAN, db_ok \in BOOLEAN :
         LET all_docs == FetchDocs(q_store, q_document_ids)
         IN  IF ~embed_ok
             THEN /\ q_pc' = "done"
                  /\ q_exc' = Exception(EMBED_FAILED_DETAIL)
                  /\ q_response' = OuterHandler(Exception(EMBED_FAILED_DETAIL))
                  /\ UNCHANGED <<q_query_vec, q_all_docs>>
             ELSE IF ~db_ok
             THEN /\ q_pc' = "done"
                  /\ q_exc' = Exception(FETCH_FAILED_DETAIL)
                  /\ q_response' = OuterHandler(Exception(FETCH_FAILED_DETAIL))
                  /\ q_query_vec' = QueryVec
                  /\ UNCHANGED q_all_docs
             ELSE IF all_docs = <<>>
             THEN /\ q_pc' = "done"
                  /\ q_exc' = HttpException(404, NOT_FOUND_DETAIL)
                  /\ q_response' =
                       OuterHandler(HttpException(404, NOT_FOUND_DETAIL))
                  /\ q_query_vec' = QueryVec
                  /\ q_all_docs' = all_docs
             ELSE /\ q_pc' = "scan"
                  /\ q_query_vec' = QueryVec
                  /\ q_all_docs' = all_docs
                  /\ UNCHANGED <<q_exc, q_response>>
    /\ UNCHANGED <<q_store, q_k, q_document_ids, q_include_chunks, q_scanned,
                   q_valid_docs, q_valid_embeddings, q_skipped_count,
                   q_results, q_top_chunks, q_llm>>
    /\ UNCHANGED <<ck_vars, ge_vars, rt_vars, st_vars, pd_vars, up_vars>>

\* lines 117-145: one iteration of the scan loop
ScanStep ==
    /\ q_pc = "scan"
    /\ q_scanned < Len(q_all_docs)
    /\ Len(q_valid_docs) < MaxValidDocs(q_k)
    /\ LET doc == q_all_docs[q_scanned + 1]
           dec == Decode(doc.embedding)
       IN  /\ q_scanned' = q_scanned + 1
           /\ IF ~dec.ok
              THEN UNCHANGED <<q_valid_docs, q_valid_embeddings, q_skipped_count>>
              ELSE IF Len(dec.vec) # Len(q_query_vec)
              THEN /\ q_skipped_count' = q_skipped_count + 1
                   /\ UNCHANGED <<q_valid_docs, q_valid_embeddings>>
              ELSE /\ q_valid_docs' = Append(q_valid_docs, doc)
                   /\ q_valid_embeddings' = Append(q_valid_embeddings, dec.vec)
                   /\ UNCHANGED q_skipped_count
    /\ UNCHANGED <<q_pc, q_store, q_k, q_document_ids, q_include_chunks,
                   q_query_vec, q_all_docs, q_results, q_top_chunks,
                   q_llm, q_exc, q_response>>
    /\ UNCHANGED <<ck_vars, ge_vars, rt_vars, st_vars, pd_vars, up_vars>>

\* lines 119-121 or the end of all_docs, then lines 147-190: the scores,
\* the two outcomes of an empty result, the sort and the top k
ScanFinish ==
    /\ q_pc = "scan"
    /\ q_scanned >= Len(q_all_docs) \/ Len(q_valid_docs) >= MaxValidDocs(q_k)
    /\ LET results ==
             [j \in 1..Len(q_valid_docs) |->
                [score |-> CosineSimilarity(q_query_vec, q_valid_embeddings[j]),
                 doc |-> q_valid_docs[j]]]
           top_results == TopResults(SortResults(results), q_k)
       IN  /\ q_results' = results
           /\ IF Len(results) = 0
              THEN /\ q_pc' = "done"
                   /\ IF q_skipped_count > 0
                      THEN /\ q_response' = Ok200(MISMATCH_ANSWER, TRUE, <<>>)
                           /\ UNCHANGED q_exc
                      ELSE /\ q_exc' = HttpException(404, NOT_FOUND_DETAIL)
                           /\ q_response' =
                                OuterHandler(HttpException(404, NOT_FOUND_DETAIL))
                   /\ UNCHANGED q_top_chunks
              ELSE /\ q_pc' = "answer"
                   /\ q_top_chunks' =
                        [j \in 1..Len(top_results) |-> SearchResult(top_results[j])]
                   /\ UNCHANGED <<q_exc, q_response>>
    /\ UNCHANGED <<q_store, q_k, q_document_ids, q_include_chunks,
                   q_query_vec, q_all_docs, q_scanned, q_valid_docs,
                   q_valid_embeddings, q_skipped_count, q_llm>>
    /\ UNCHANGED <<ck_vars, ge_vars, rt_vars, st_vars, pd_vars, up_vars>>

\* lines 192-227: the answer, or the fallback when the call fails, and the
\* response
QueryAnswer ==
    /\ q_pc = "answer"
    /\ \E llm_ok \in BOOLEAN, include_chunks \in BOOLEAN :
         /\ q_include_chunks' = include_chunks
         /\ q_llm' = IF llm_ok THEN "ok" ELSE "failed"
         /\ q_response' = AnswerResponse(llm_ok, include_chunks, q_top_chunks)
    /\ q_pc' = "done"
    /\ UNCHANGED <<q_store, q_k, q_document_ids,
                   q_query_vec, q_all_docs, q_scanned, q_valid_docs,
                   q_valid_embeddings, q_skipped_count, q_results,
                   q_top_chunks, q_exc>>
    /\ UNCHANGED <<ck_vars, ge_vars, rt_vars, st_vars, pd_vars, up_vars>>

NextQuery ==
    \/ QueryStart
    \/ ScanStep
    \/ ScanFinish
    \/ QueryAnswer

SpecQuery == InitQuery /\ [][NextQuery]_vars

\* The stored embeddings of the larger tables: a vector of the query's
\* dimension as a native list and as a JSON string, one of another
\* dimension, and a string that is not JSON
ScanEmbeddings ==
    {NativeList(<<1, 0>>), JsonString(JsonDumps(<<1, 0>>)),
     JsonString(JsonDumps(<<4, 3, 0>>)), JsonString(<<"[", "1", ",">>)}

\* _process_query on tables large enough for the cap of line 114 to end
\* the scan: MaxScanDocs records, most of them holding the first of
\* ScanEmbeddings
InitScan ==
    /\ IdleUploads
    /\ IdleProcess
    /\ IdleChunk
    /\ IdleEmbed
    /\ IdleStore
    /\ q_pc = "call"
    /\ \E fn \in UploadedFilenames(MaxScanDocs),
          other \in ScanEmbeddings, at \in 1..MaxScanDocs :
         q_store =
           StoreOf(fn, [j \in 1..MaxScanDocs |->
                          IF j = at THEN other ELSE NativeList(<<1, 0>>)])
    /\ q_k \in 0..MaxK
    /\ q_document_ids \in {<<>>, <<"a.pdf">>}
    /\ q_include_chunks = FALSE
    /\ q_query_vec = <<>>
    /\ q_all_docs = <<>>
    /\ q_scanned = 0
    /\ q_valid_docs = <<>>
    /\ q_valid_embeddings = <<>>
    /\ q_skipped_count = 0
    /\ q_results = <<>>
    /\ q_top_chunks = <<>>
    /\ q_llm = "none"
    /\ q_exc = NoException
    /\ q_response = NoResponse

SpecScan == InitScan /\ [][NextQuery]_vars

---------------------------------------------------------------------------
(* process_document, embeddings.py 269-325.  A content is None, a str or   *)
(* bytes; a str is its sequence of characters and bytes are their          *)
(* sequence of byte values.  process_document calls chunk_text and then    *)
(* generate_embeddings, whose steps are the actions above.                 *)

\* The byte values of the model: a space, the letter a, and the two bytes
\* of the UTF-8 encoding of U+00A0, each of which alone is invalid UTF-8
Bytes == {32, 97, 160, 194}

\* The character with a code point
CharOf == (32 :> " ") @@ (97 :> "a") @@ (160 :> "nbsp") @@ (194 :> "Acirc")

RECURSIVE Utf8Decode(_)
\* line 298: content.decode('utf-8'); ok is FALSE for UnicodeDecodeError.
\* A byte below 128 is one character; 194 starts a two-byte sequence whose
\* second byte is in 128..191; a byte of 128..191 cannot start a character.
Utf8Decode(data) ==
    IF data = <<>> THEN [ok |-> TRUE, text |-> <<>>]
    ELSE IF data[1] < 128
    THEN LET rest == Utf8Decode(Tail(data))
         IN  [ok |-> rest.ok,
              text |-> IF rest.ok THEN <<CharOf[data[1]]>> \o rest.text ELSE <<>>]
    ELSE IF data[1] = 194 /\ Len(data) >= 2 /\ data[2] >= 128 /\ data[2] <= 191
    THEN LET rest == Utf8Decode(SubSeq(data, 3, Len(data)))
         IN  [ok |-> rest.ok,
              text |-> IF rest.ok
                       THEN <<CharOf[(data[1] - 192) * 64 + (data[2] - 128)]>>
                            \o rest.text
                       ELSE <<>>]
    ELSE [ok |-> FALSE, text |-> <<>>]

\* line 300: content.decode('latin-1'), one character per byte
Latin1Decode(data) == [j \in 1..Len(data) |-> CharOf[data[j]]]

\* lines 294-302: text_content
DecodeContent(content) ==
    IF content.kind = "bytes"
    THEN IF Utf8Decode(content.data).ok
         THEN Utf8Decode(content.data).text
         ELSE Latin1Decode(content.data)
    ELSE content.data

\* str.isspace for the characters of the model
IsSpace(ch) == ch \in {" ", "nbsp"}

RECURSIVE LStrip(_)
\* str.lstrip()
LStrip(text) ==
    IF text # <<>> /\ IsSpace(Head(text)) THEN LStrip(Tail(text)) ELSE text

RECURSIVE RStrip(_)
\* str.rstrip()
RStrip(text) ==
    IF text # <<>> /\ IsSpace(text[Len(text)])
    THEN RStrip(SubSeq(text, 1, Len(text) - 1))
    ELSE text

\* str.strip()
Strip(text) == LStrip(RStrip(text))

\* line 304 without the strip test
IsEmptyOnly(text_content) == text_content = <<>>

\* line 304: not text_content or len(text_content.strip()) == 0
IsBlankContent(text_content) ==
    text_content = <<>> \/ Len(Strip(text_content)) = 0

\* The contents of the model
Contents ==
    {NoContent}
    \cup {[kind |-> "str", data |-> t] :
            t \in UNION {[1..n -> {" ", "a", "nbsp"}] : n \in 0..MaxContentLen}}
    \cup {[kind |-> "bytes", data |-> b] :
            b \in UNION {[1..n -> Bytes] : n \in 0..MaxContentLen}}

\* A str of one token more than a request to the service may carry, when
\* every character is a token of its own
OversizeContent ==
    [kind |-> "str", data |-> [j \in 1..(MAX_TOKENS_PER_CHUNK + 1) |-> "a"]]

\* lines 319-323: the chunks as generate_embeddings receives them
ChunksForEmbedding(chunks) ==
    [j \in 1..Len(chunks) |-> [id |-> j, lo |-> 0, ntok |-> SliceLen(chunks[j])]]

InitProcess ==
    /\ IdleUploads
    /\ IdleChunk
    /\ IdleEmbed
    /\ IdleQuery
    /\ IdleStore
    /\ pd_pc = "call"
    /\ \/ /\ pd_content \in Contents
          /\ pd_chunk_size \in {None, 2}
       \/ /\ pd_content = OversizeContent
          /\ pd_chunk_size = MAX_TOKENS_PER_CHUNK + 1
    /\ pd_chunk_overlap \in {None, 1}
    /\ pd_batch_size \in {None, 1}
    /\ pd_text_content = <<>>
    /\ pd_result = NoResult
    /\ pd_error = "none"

\* lines 289-315: the None test, the decoding, the blank return, and the
\* call of chunk_text
ProcessCall ==
    /\ pd_pc = "call"
    /\ IF pd_content.kind = "none"
       THEN /\ pd_pc' = "raised"
            /\ pd_error' = "ValueError"
            /\ UNCHANGED <<pd_text_content, pd_result, ck_vars>>
       ELSE LET text_content == DecodeContent(pd_content)
            IN  /\ pd_text_content' = text_content
                /\ UNCHANGED pd_error
                /\ IF IsBlankContent(text_content)
                   THEN /\ pd_pc' = "done"
                        /\ pd_result' =
                             [chunks |-> <<>>, embeddings |-> <<>>,
                              stats |-> ZERO_STATS]
                        /\ UNCHANGED ck_vars
                   ELSE /\ pd_pc' = "chunking"
                        /\ ck_pc' = "call"
                        /\ ck_text' = text_content
                        /\ ck_chunk_size_arg' = pd_chunk_size
                        /\ ck_overlap_arg' = pd_chunk_overlap
                        /\ UNCHANGED <<pd_result, ck_total_tokens,
                                       ck_chunk_size, ck_overlap, ck_i,
                                       ck_chunks, ck_stats>>
    /\ UNCHANGED <<pd_content, pd_chunk_size, pd_chunk_overlap, pd_batch_size>>
    /\ UNCHANGED <<ge_vars, rt_vars, q_vars, st_vars, up_vars>>

\* lines 310-323: chunk_text has returned and generate_embeddings is called
ProcessEmbed ==
    /\ pd_pc = "chunking"
    /\ ck_pc = "done"
    /\ pd_pc' = "embedding"
    /\ ge_pc' = "call"
    /\ ge_chunks' = ChunksForEmbedding(ck_chunks)
    /\ ge_batch_size_arg' = pd_batch_size
    /\ UNCHANGED <<ge_batch_size, ge_validated, ge_i, ge_embeddings,
                   ge_result, ge_error, ge_requests, ge_sleeps, ge_failures>>
    /\ UNCHANGED <<pd_content, pd_chunk_size, pd_chunk_overlap, pd_batch_size,
                   pd_text_content, pd_result, pd_error>>
    /\ UNCHANGED <<ck_vars, rt_vars, q_vars, st_vars, up_vars>>

\* lines 319-325: generate_embeddings has returned, or its exception
\* leaves process_document
ProcessReturn ==
    /\ pd_pc = "embedding"
    /\ ge_pc \in {"returned", "raised"}
    /\ IF ge_pc = "returned"
       THEN /\ pd_pc' = "done"
            /\ pd_result' =
                 [chunks |-> ck_chunks, embeddings |-> ge_result,
                  stats |-> ck_stats]
            /\ UNCHANGED pd_error
       ELSE /\ pd_pc' = "raised"
            /\ pd_error' = ge_error
            /\ UNCHANGED pd_result
    /\ UNCHANGED <<pd_content, pd_chunk_size, pd_chunk_overlap, pd_batch_size,
                   pd_text_content>>
    /\ UNCHANGED <<ck_vars, ge_vars, rt_vars, q_vars, st_vars, up_vars>>

NextProcess ==
    \/ ProcessCall
    \/ ChunkCall
    \/ ChunkLoop
    \/ ChunkReturn
    \/ ProcessEmbed
    \/ GenerateCall
    \/ AttemptOk
    \/ AttemptFail
    \/ NextBatch
    \/ ProcessReturn

SpecProcess == InitProcess /\ [][NextProcess]_vars

---------------------------------------------------------------------------
(* The document_embeddings table under upload_document (ingestion.py       *)
(* 41-157), delete_document (document_select.py 85-129) and list_documents *)
(* (document_select.py 31-76).  A record is [id, filename, chunk_id,       *)
(* chunk_text, embedding, created_at], chunk_text and embedding being the  *)
(* positions of the chunk and of the vector in what process_document       *)
(* returned; a request is handled in one step, the handlers doing their    *)
(* inserts or their delete and the commit without yielding in between.     *)

\* The filenames an upload may carry: the last two fail line 62
UploadNames == Filenames \cup {"noext", ""}

\* ingestion.py line 62: not file.filename or "." not in file.filename
InvalidFilename(filename) == filename \notin Filenames

\* What read_document_content may return for an upload: a str
UploadContents == {<<>>, <<" ", "nbsp">>, <<" ", "a">>}

\* ingestion.py line 84 without the strip test
UploadEmptyOnly(content) == content = <<>>

\* ingestion.py line 84: not content or len(content.strip()) == 0
UploadIsEmpty(content) == content = <<>> \/ Len(Strip(content)) = 0

\* How the calls of an upload may end: save_uploaded_document or
\* read_document_content raising, process_document raising, db.commit
\* raising, the reload of a committed record for the response raising, or
\* none of these
UploadOutcomes ==
    {"save_failed", "read_failed", "embed_failed", "commit_failed",
     "reload_failed", "ok"}

INVALID_FORMAT_DETAIL == "Invalid file format"
SAVE_FAILED_DETAIL == "Failed to save file"
READ_FAILED_DETAIL == "Failed to read content"
EMPTY_DOCUMENT_DETAIL == "Document appears to be empty"
GENERATE_FAILED_DETAIL == "Failed to generate embeddings"
COMMIT_FAILED_DETAIL == "Database commit error"
DATABASE_ERROR_DETAIL == "Database error"
DOCUMENT_NOT_FOUND_DETAIL == "Document not found"
DELETE_FAILED_DETAIL == "Failed to delete document"
LIST_FAILED_DETAIL == "Failed to list documents"

\* A content read from the uploaded file
StrContent(content) == [kind |-> "str", data |-> content]

\* ingestion.py lines 102-117 with the whole loop given up at the first
\* chunk that fails
AddedNone(n, failed) == IF failed = {} THEN 1..n ELSE {}

\* ingestion.py lines 102-117: the positions of zip(chunks, embeddings) that
\* reach db.add; the ones whose inner try raised are skipped by continue
Added(n, failed) == (1..n) \ failed

RECURSIVE SeqOfSet(_)
\* The members of a set of numbers in increasing order
SeqOfSet(S) ==
    IF S = {} THEN <<>>
    ELSE LET m == CHOOSE x \in S : \A y \in S : x <= y
         IN  <<m>> \o SeqOfSet(S \ {m})

\* ingestion.py lines 102-114 and db.py 71-88: the records committed for an
\* upload of n chunks, chunk_id = idx of enumerate(zip(chunks, embeddings)),
\* ids in the order of db.add, created_at from the server default
NewRecords(filename, n, failed, first_id, now) ==
    LET added == SeqOfSet(Added(n, failed))
    IN  [j \in 1..Len(added) |->
           [id |-> first_id + j - 1, filename |-> filename,
            chunk_id |-> added[j] - 1, chunk_text |-> added[j],
            embedding |-> added[j], created_at |-> now]]

\* document_select.py line 94: the records with the filename
ChunksToDelete(store, filename) ==
    SelectSeq(store, LAMBDA r : r.filename = filename)

\* line 109 with the filter dropped
DeleteEverything(store, filename) == <<>>

\* document_select.py line 109: the table after
\* query(DocumentEmbedding).filter(filename == filename).delete()
AfterDelete(store, filename) ==
    SelectSeq(store, LAMBDA r : r.filename # filename)

\* How the database calls of a delete may end
DeleteOutcomes == {"find_failed", "delete_failed", "ok"}

\* document_select.py line 49: the groups of group_by(filename)
StoredFilenames(store) == {store[j].filename : j \in 1..Len(store)}

\* The created_at values of a filename's records
CreatedAtOf(store, filename) ==
    {store[j].created_at : j \in {i \in 1..Len(store) : store[i].filename = filename}}

\* line 47 with func.max in the place of func.min
LatestCreatedAt(store, filename) ==
    CHOOSE t \in CreatedAtOf(store, filename) :
        \A u \in CreatedAtOf(store, filename) : u <= t

\* document_select.py line 47: func.min(created_at) of a group
EarliestCreatedAt(store, filename) ==
    CHOOSE t \in CreatedAtOf(store, filename) :
        \A u \in CreatedAtOf(store, filename) : t <= u

\* document_select.py lines 64-68: the entry of a group
DocumentEntry(store, filename) ==
    [id |-> filename, filename |-> filename,
     upload_time |-> EarliestCreatedAt(store, filename)]

\* document_select.py lines 44-71: the groups in the order of
\* order_by(func.min(created_at).desc()); the order of two groups with the
\* same time is the database's choice
DocumentLists(store) ==
    LET names == StoredFilenames(store)
    IN  {l \in [1..Cardinality(names) -> {DocumentEntry(store, f) : f \in names}] :
           /\ \A f \in names : \E j \in DOMAIN l : l[j].filename = f
           /\ \A i, j \in DOMAIN l :
                i < j => l[i].upload_time >= l[j].upload_time}

\* How the query of list_documents may end
ListOutcomes == {"query_failed", "ok"}

StoreResponse(op, filename, status, count, detail) ==
    [op |-> op, filename |-> filename, status |-> status, count |-> count,
     detail |-> detail]

InitStore ==
    /\ IdleUploads
    /\ IdleProcess
    /\ IdleChunk
    /\ IdleEmbed
    /\ IdleQuery
    /\ st_store = <<>>
    /\ st_next_id = 1
    /\ st_requests = 0
    /\ st_response = NoRequest
    /\ st_documents = <<>>
    /\ st_content = NoContent
    /\ st_processed = NotProcessed

\* What process_document gave a request that called it: n chunks, none
\* when it raised
Processed(n) == [called |-> TRUE, chunks |-> n]

\* A request that ends without touching the table
Rejected(response, content, processed) ==
    /\ st_response' = response
    /\ st_content' = content
    /\ st_processed' = processed
    /\ UNCHANGED <<st_store, st_next_id>>

\* ingestion.py lines 57-157: POST /documents/upload.  n is the number of
\* chunks process_document returns for the content and failed the positions
\* whose DocumentEmbedding(...) or db.add raised.
UploadDocument ==
    /\ st_requests < MaxRequests
    /\ st_requests' = st_requests + 1
    /\ st_documents' = <<>>
    /\ \E filename \in UploadNames :
         IF InvalidFilename(filename)
         THEN Rejected(StoreResponse("upload", filename, 400, 0,
                                     INVALID_FORMAT_DETAIL),
                       NoContent, NotProcessed)
         ELSE \E outcome \in UploadOutcomes :
         IF outcome = "save_failed"
         THEN Rejected(StoreResponse("upload", filename, 500, 0,
                                     SAVE_FAILED_DETAIL),
                       NoContent, NotProcessed)
         ELSE IF outcome = "read_failed"
         THEN Rejected(StoreResponse("upload", filename, 500, 0,
                                     READ_FAILED_DETAIL),
                       NoContent, NotProcessed)
         ELSE \E content \in UploadContents :
         IF UploadIsEmpty(content)
         THEN Rejected(StoreResponse("upload", filename, 400, 0,
                                     EMPTY_DOCUMENT_DETAIL),
                       StrContent(content), NotProcessed)
         ELSE IF outcome = "embed_failed"
         THEN Rejected(StoreResponse("upload", filename, 500, 0,
                                     GENERATE_FAILED_DETAIL),
                       StrContent(content), Processed(0))
         ELSE \E n \in 1..MaxUploadChunks :
         IF outcome = "commit_failed"
         THEN Rejected(StoreResponse("upload", filename, 500, 0,
                                     COMMIT_FAILED_DETAIL),
                       StrContent(content), Processed(n))
         ELSE \E failed \in SUBSET (1..n) :
              LET records ==
                      NewRecords(filename, n, failed, st_next_id,
                                 st_requests + 1)
              IN  /\ st_content' = StrContent(content)
                  /\ st_processed' = Processed(n)
                  /\ st_store' = st_store \o records
                  /\ st_next_id' = st_next_id + Len(records)
                  /\ st_response' =
                       IF outcome = "reload_failed" /\ records # <<>>
                       THEN StoreResponse("upload", filename, 500, 0,
                                          DATABASE_ERROR_DETAIL)
                       ELSE StoreResponse("upload", filename, 200,
                                          Len(records), "")
    /\ UNCHANGED <<ck_vars, ge_vars, rt_vars, q_vars, pd_vars, up_vars>>

\* document_select.py lines 89-129: DELETE /documents/{filename}
DeleteDocument ==
    /\ st_requests < MaxRequests
    /\ st_requests' = st_requests + 1
    /\ \E filename \in Filenames, outcome \in DeleteOutcomes :
         LET chunks_to_delete == ChunksToDelete(st_store, filename)
         IN  IF outcome = "find_failed"
             THEN /\ st_response' =
                       StoreResponse("delete", filename, 500, 0,
                                     DELETE_FAILED_DETAIL)
                  /\ UNCHANGED st_store
             ELSE IF chunks_to_delete = <<>>
             THEN /\ st_response' =
                       StoreResponse("delete", filename, 404, 0,
                                     DOCUMENT_NOT_FOUND_DETAIL)
                  /\ UNCHANGED st_store
             ELSE IF outcome = "delete_failed"
             THEN /\ st_response' =
                       StoreResponse("delete", filename, 500, 0,
                                     DELETE_FAILED_DETAIL)
                  /\ UNCHANGED st_store
             ELSE /\ st_store' = AfterDelete(st_store, filename)
                  /\ st_response' =
                       StoreResponse("delete", filename, 204,
                                     Len(chunks_to_delete), "")
    /\ st_documents' = <<>>
    /\ st_content' = NoContent
    /\ st_processed' = NotProcessed
    /\ UNCHANGED st_next_id
    /\ UNCHANGED <<ck_vars, ge_vars, rt_vars, q_vars, pd_vars, up_vars>>

\* document_select.py lines 38-76: GET /documents
ListDocuments ==
    /\ st_requests < MaxRequests
    /\ st_requests' = st_requests + 1
    /\ \E outcome \in ListOutcomes :
         IF outcome = "query_failed"
         THEN /\ st_response' =
                   StoreResponse("list", "", 500, 0, LIST_FAILED_DETAIL)
              /\ st_documents' = <<>>
         ELSE \E document_list \in DocumentLists(st_store) :
                /\ st_documents' = document_list
                /\ st_response' =
                     StoreResponse("list", "", 200, Len(document_list), "")
    /\ st_content' = NoContent
    /\ st_processed' = NotProcessed
    /\ UNCHANGED <<st_store, st_next_id>>
    /\ UNCHANGED <<ck_vars, ge_vars, rt_vars, q_vars, pd_vars, up_vars>>

NextStore ==
    \/ UploadDocument
    \/ DeleteDocument
    \/ ListDocuments

SpecStore == InitStore /\ [][NextStore]_vars

---------------------------------------------------------------------------
(* Two upload requests for different filenames in flight at the same time  *)
(* (ingestion.py 41-157 running process_document and generate_embeddings,  *)
(* embeddings.py 186-325).  The handlers are coroutines of one event loop:  *)
(* a step runs a request from one await to the next, the awaits being the   *)
(* calls of the embedding service, the waits between retries and the delay  *)
(* between batches; the inserts and the commit of a request run without an  *)
(* await in between.  The requests share the table st_store, whose records  *)
(* hold here the chunk and the vector themselves.                           *)

\* file.filename of a request
FilenameOf(r) == IF r = 1 THEN "a.pdf" ELSE "b.pdf"

\* The numbers of chunks a document may have: one (the fast path), two (one
\* batch) and MaxBatchedChunks (several batches)
DocChunkCounts == {1, 2, MaxBatchedChunks}

\* The chunks chunk_text returns for the document of request r, each a text
\* of this document and of no other
DocChunks(r, n) ==
    [j \in 1..n |-> [id |-> j, lo |-> 0, ntok |-> 1, doc |-> FilenameOf(r)]]

\* embeddings.py line 217: validated_chunks of request r
Validated(r) == PrepareChunksForEmbedding(DocChunks(r, up_req[r].n))

\* line 233 with embeddings a list of the module, shared by the calls
SharedSlot(r) == 1

\* embeddings.py line 233: embeddings = [] is a local of the call, so every
\* request appends to a list of its own
Slot(r) == r

\* The sets of positions whose insert may raise in one request
InsertFailures(n) ==
    {S \in SUBSET (1..n) : Cardinality(S) <= MaxInsertFailures}

\* ingestion.py lines 102-114: the records added for
\* enumerate(zip(chunks, embeddings)), the positions in failed skipped
ZipRecords(filename, chunks, embeddings, failed, first_id, now) ==
    LET added == SeqOfSet((1..Min(Len(chunks), Len(embeddings))) \ failed)
    IN  [j \in 1..Len(added) |->
           [id |-> first_id + j - 1, filename |-> filename,
            chunk_id |-> added[j] - 1, chunk_text |-> chunks[added[j]],
            embedding |-> embeddings[added[j]], created_at |-> now]]

\* A request that has arrived for a document of n chunks
Arrived(n) == [NoUpload EXCEPT !.pc = "arrived", !.n = n]

InitConcurrent ==
    /\ IdleProcess
    /\ IdleChunk
    /\ IdleEmbed
    /\ IdleQuery
    /\ IdleStore
    /\ up_req \in [Requests -> {Arrived(n) : n \in DocChunkCounts}]

\* ingestion.py lines 57-91 and embeddings.py lines 289-323, 202-234: the
\* file is saved and read, the text is chunked, and generate_embeddings
\* runs up to its first call of the service
UploadBegin(r) ==
    /\ up_req[r].pc = "arrived"
    /\ \E outcome \in {"save_failed", "read_failed", "ok"} :
         IF outcome # "ok"
         THEN up_req' =
                [up_req EXCEPT
                   ![r].pc = "done",
                   ![r].response =
                      StoreResponse("upload", FilenameOf(r), 500, 0,
                                    IF outcome = "save_failed"
                                    THEN SAVE_FAILED_DETAIL
                                    ELSE READ_FAILED_DETAIL)]
         ELSE IF Len(Validated(r)) = 1
         THEN up_req' =
                [up_req EXCEPT
                   ![r].pc = "single",
                   ![r].batch_size =
                      OrDefault(None,
                                Min(EMBEDDING_BATCH_SIZE, DEFAULT_BATCH_CAP))]
         ELSE up_req' =
                [up_req EXCEPT
                   ![r].pc = "batch",
                   ![r].batch_size =
                      OrDefault(None,
                                Min(EMBEDDING_BATCH_SIZE, DEFAULT_BATCH_CAP)),
                   ![Slot(r)].embeddings = <<>>]
    /\ UNCHANGED <<ck_vars, ge_vars, rt_vars, q_vars, st_vars, pd_vars>>

\* The batch of the call request r is waiting for
BatchOf(r) ==
    IF up_req[r].pc = "single" THEN Validated(r)
    ELSE Batch(Validated(r), up_req[r].i, up_req[r].batch_size)

\* embeddings.py lines 165-172 succeed for request r; then line 231, or
\* lines 252-262
UploadAttemptOk(r) ==
    /\ up_req[r].pc \in {"single", "batch"}
    /\ LET me == up_req[r]
           data == ResponseData(BatchOf(r))
           embeddings == up_req[Slot(r)].embeddings \o data
           more == me.i + me.batch_size < Len(Validated(r))
       IN  IF me.pc = "single"
           THEN up_req' =
                  [up_req EXCEPT ![r].pc = "insert",
                                 ![r].result = <<data[1]>>]
           ELSE up_req' =
                  [up_req EXCEPT
                     ![Slot(r)].embeddings = embeddings,
                     ![r].pc =
                        IF SleepCond(BatchOf(r), me.i, me.batch_size,
                                     Len(Validated(r)))
                        THEN "sleep"
                        ELSE IF more THEN "next" ELSE "insert",
                     ![r].result = IF more THEN @ ELSE embeddings]
    /\ UNCHANGED <<ck_vars, ge_vars, rt_vars, q_vars, st_vars, pd_vars>>

\* embeddings.py lines 165-184 fail for request r: the wrapper waits and
\* tries again, or gives up, and then the exception leaves
\* generate_embeddings and process_document and upload_document answers
\* with lines 93-96
UploadAttemptFail(r) ==
    /\ up_req[r].pc \in {"single", "batch"}
    /\ \E raw \in AttemptOutcomes \ {"ok"} :
         LET exc == RaisedBy(raw)
             attempt_number == up_req[r].attempts + 1
         IN  IF IsRetryable(exc) /\ ~StopAfterAttempt(attempt_number)
             THEN up_req' = [up_req EXCEPT ![r].attempts = attempt_number]
             ELSE up_req' =
                    [up_req EXCEPT
                       ![r].pc = "done",
                       ![r].attempts = attempt_number,
                       ![r].response =
                          StoreResponse("upload", FilenameOf(r), 500, 0,
                                        GENERATE_FAILED_DETAIL)]
    /\ UNCHANGED <<ck_vars, ge_vars, rt_vars, q_vars, st_vars, pd_vars>>

\* embeddings.py line 258 is over, then line 238: the loop of request r
\* moves to the next batch
UploadWake(r) ==
    /\ up_req[r].pc \in {"sleep", "next"}
    /\ up_req' =
         [up_req EXCEPT
            ![r].pc = "batch",
            ![r].i = NextBatchStart(up_req[r].i, up_req[r].batch_size),
            ![r].attempts = 0]
    /\ UNCHANGED <<ck_vars, ge_vars, rt_vars, q_vars, st_vars, pd_vars>>

\* ingestion.py lines 98-148: process_document has returned to request r,
\* which adds its records and commits
UploadInsert(r) ==
    /\ up_req[r].pc = "insert"
    /\ \E outcome \in {"commit_failed", "reload_failed", "ok"} :
         IF outcome = "commit_failed"
         THEN /\ up_req' =
                   [up_req EXCEPT
                      ![r].pc = "done",
                      ![r].response =
                         StoreResponse("upload", FilenameOf(r), 500, 0,
                                       COMMIT_FAILED_DETAIL)]
              /\ UNCHANGED <<st_store, st_next_id>>
         ELSE \E failed \in InsertFailures(up_req[r].n) :
              LET now == Cardinality({q \in Requests :
                                        up_req[q].pc = "done"}) + 1
                  records ==
                      ZipRecords(FilenameOf(r), DocChunks(r, up_req[r].n),
                                 up_req[r].result, failed, st_next_id, now)
              IN  /\ st_store' = st_store \o records
                  /\ st_next_id' = st_next_id + Len(records)
                  /\ up_req' =
                       [up_req EXCEPT
                          ![r].pc = "done",
                          ![r].failed = failed,
                          ![r].response =
                             IF outcome = "reload_failed" /\ records # <<>>
                             THEN StoreResponse("upload", FilenameOf(r), 500,
                                                0, DATABASE_ERROR_DETAIL)
                             ELSE StoreResponse("upload", FilenameOf(r), 200,
                                                Len(records), "")]
    /\ UNCHANGED <<st_requests, st_response, st_documents, st_content,
                   st_processed>>
    /\ UNCHANGED <<ck_vars, ge_vars, rt_vars, q_vars, pd_vars>>

NextConcurrent ==
    \E r \in Requests :
       \/ UploadBegin(r)
       \/ UploadAttemptOk(r)
       \/ UploadAttemptFail(r)
       \/ UploadWake(r)
       \/ UploadInsert(r)

SpecConcurrent == InitConcurrent /\ [][NextConcurrent]_vars

---------------------------------------------------------------------------
(* Claims about chunk_text *)

\* The token indices some returned chunk contains
CoveredTokens ==
    {t \in 0..(ck_total_tokens - 1) :
        \E c \in 1..Len(ck_chunks) : ck_chunks[c].lo <= t /\ t < ck_chunks[c].hi}

\* C1: when chunk_text returns for a text of T >= 1 tokens and arguments
\* chunk_size >= 1, 0 <= overlap < chunk_size, the returned chunks' token
\* ranges together contain every token index of 0..T-1.
C1_ChunksCoverAllTokens ==
    (/\ ck_pc = "done"
     /\ ck_total_tokens >= 1
     /\ ck_chunk_size_arg >= 1
     /\ ck_overlap_arg >= 0
     /\ ck_overlap_arg < ck_chunk_size_arg)
    => CoveredTokens = 0..(ck_total_tokens - 1)

\* C1 witness: a run with overlap < chunk_size that returned several chunks
\* none of which holds the whole text.
C1_Witness ==
    /\ ck_pc = "done"
    /\ ck_total_tokens >= 4
    /\ ck_chunk_size_arg >= 2
    /\ ck_overlap_arg >= 1
    /\ ck_overlap_arg < ck_chunk_size_arg
    /\ Len(ck_chunks) >= 3
    /\ \A c \in 1..Len(ck_chunks) : SliceLen(ck_chunks[c]) < ck_total_tokens

\* C2: in a call that uses the chunk_size >= 1 and the overlap >= 0 it was
\* given, overlap >= chunk_size included, every iteration after which the
\* loop goes on has moved the window start forward by at least one token
\* (the loop neither stalls nor moves backwards, so it ends).
C2_WindowStartAdvances ==
    [][(/\ ck_pc = "loop"
        /\ ck_chunk_size_arg >= 1
        /\ ck_overlap_arg >= 0
        /\ ck_chunk_size = ck_chunk_size_arg
        /\ ck_overlap = ck_overlap_arg
        /\ ck_pc' = "loop")
       => ck_i' >= ck_i + 1]_vars

\* The token counts of the returned chunks, in order
ChunkTokenCounts == [c \in 1..Len(ck_chunks) |-> SliceLen(ck_chunks[c])]

\* C13: chunk_text on a text of 2500 tokens with chunk_size 1000 and
\* overlap 200 returns exactly 3 chunks, of 1000, 1000 and 500 tokens.
C13_ScenarioThreeChunks ==
    (/\ ck_pc = "done"
     /\ ck_total_tokens = 2500
     /\ ck_chunk_size = 1000
     /\ ck_overlap = 200)
    => ChunkTokenCounts = <<1000, 1000, 500>>

\* A text with no character other than whitespace, the empty text included
IsBlankText(text) == \A j \in 1..Len(text) : text[j] = " "

\* C14: chunk_text on the empty text or on a text of whitespace only
\* returns no chunk and the statistics total_tokens 0, chunk_count 0,
\* avg_chunk_tokens 0.
C14_BlankTextNoChunks ==
    (ck_pc = "done" /\ IsBlankText(ck_text))
    => /\ ck_chunks = <<>>
       /\ ck_stats = ZERO_STATS

---------------------------------------------------------------------------
(* Claims about generate_embeddings and _create_embeddings_with_retry *)

\* The vector the service produces for input chunk j (for the text that
\* validation lets through for it)
VectorForInput(j) == EmbeddingOf(PrepareChunk(ge_chunks[j])[1])

\* C3: the vectors accumulated so far are, position by position, those of
\* the first input chunks (a retried batch adds its vectors once and earlier
\* vectors are not changed), and when generate_embeddings returns for
\* n >= 1 chunks the result has length n with result[j] the vector produced
\* for input chunk j.
C3_VectorsIndexAligned ==
    /\ Len(ge_embeddings) <= Len(ge_chunks)
    /\ \A j \in 1..Len(ge_embeddings) : ge_embeddings[j] = VectorForInput(j)
    /\ (ge_pc = "returned" /\ Len(ge_chunks) >= 1)
         => /\ Len(ge_result) = Len(ge_chunks)
            /\ \A j \in 1..Len(ge_chunks) : ge_result[j] = VectorForInput(j)

\* C3 witness: a run of three chunks in batches of two returned after the
\* call of its last, partial batch was retried.
C3_Witness ==
    /\ ge_pc = "returned"
    /\ Len(ge_chunks) = 3
    /\ ge_batch_size = 2
    /\ Len(rt_log) = 3
    /\ Len(ge_result) = 3

\* The failure kinds the retry policy is documented to retry
TransientKinds == {"RateLimitError", "APITimeoutError", "APIConnectionError"}

\* C4: every attempt that is followed by another attempt failed with a
\* transient kind (the local 10-second timeout counting as the timeout
\* kind), and an attempt that failed with any other kind is the last one
\* and its failure is what leaves the wrapper.
C4_RetryOnlyTransient ==
    /\ \A a \in 1..(Len(rt_log) - 1) : rt_log[a].raised \in TransientKinds
    /\ \A a \in 1..Len(rt_log) :
         /\ rt_log[a].raw = "asyncio.TimeoutError"
              => rt_log[a].raised = "APITimeoutError"
         /\ (rt_log[a].raw # "ok" /\ rt_log[a].raised \notin TransientKinds)
              => /\ a = Len(rt_log)
                 /\ rt_state = "raised"
                 /\ rt_error = rt_log[a].raised

\* C4 witness: a non-transient failure on a second attempt, after a local
\* timeout was retried.
C4_Witness ==
    /\ Len(rt_log) = 2
    /\ rt_log[1].raw = "asyncio.TimeoutError"
    /\ rt_log[2].raised = "BadRequestError"
    /\ rt_state = "raised"

\* C5: a call makes at most MAX_RETRIES attempts; a successful attempt is
\* the last one and ends the call; and when MAX_RETRIES attempts have all
\* failed the failure of the last one is raised.
C5_BoundedAttempts ==
    /\ Len(rt_log) <= MAX_RETRIES
    /\ \A a \in 1..Len(rt_log) :
         rt_log[a].raw = "ok" => (a = Len(rt_log) /\ rt_state = "returned")
    /\ (Len(rt_log) = MAX_RETRIES /\ rt_log[MAX_RETRIES].raw # "ok")
         => /\ rt_state = "raised"
            /\ rt_error = rt_log[MAX_RETRIES].raised

\* C5 witness: three transient failures in a row, the last one raised.
C5_Witness ==
    /\ Len(rt_log) = MAX_RETRIES
    /\ \A a \in 1..MAX_RETRIES : rt_log[a].raised \in TransientKinds
    /\ rt_log[1].raised # rt_log[MAX_RETRIES].raised
    /\ rt_state = "raised"
    /\ rt_error = rt_log[MAX_RETRIES].raised

\* What the claim says goes on to embedding for an input chunk
EmbeddedText(chunk) ==
    IF chunk.ntok <= MAX_TOKENS_PER_CHUNK THEN chunk
    ELSE [id |-> chunk.id, lo |-> 0, ntok |-> MAX_TOKENS_PER_CHUNK]

\* C15: for every input chunk, validate_chunk_length gives (True, None)
\* exactly when the chunk has at most MAX_TOKENS_PER_CHUNK tokens and
\* otherwise (False, t) with t the first MAX_TOKENS_PER_CHUNK tokens of the
\* chunk, never True with a truncated text; validated_chunks holds, for
\* each input chunk in order, the chunk itself or its truncation; and no
\* request to the service carries a text of more than
\* MAX_TOKENS_PER_CHUNK tokens.
C15_OversizedChunksTruncated ==
    /\ \A j \in 1..Len(ge_chunks) :
         LET v == ValidateChunkLength(ge_chunks[j])
         IN  /\ v.is_valid <=> ge_chunks[j].ntok <= MAX_TOKENS_PER_CHUNK
             /\ v.is_valid => v.truncated = <<>>
             /\ ~v.is_valid => v.truncated = <<EmbeddedText(ge_chunks[j])>>
    /\ (ge_pc \notin {"idle", "call"} /\ ge_chunks # <<>>)
         => /\ Len(ge_validated) = Len(ge_chunks)
            /\ \A j \in 1..Len(ge_chunks) :
                 ge_validated[j] = EmbeddedText(ge_chunks[j])
    /\ \A r \in 1..Len(ge_requests) :
         \A c \in 1..Len(ge_requests[r]) :
            /\ ge_requests[r][c].ntok <= MAX_TOKENS_PER_CHUNK
            /\ ge_requests[r][c] = EmbeddedText(ge_chunks[ge_requests[r][c].id])

\* C15 witness: a request went out that carries the truncation of an
\* oversized input chunk next to a chunk of exactly MAX_TOKENS_PER_CHUNK
\* tokens that was left as it is.
C15_Witness ==
    \E r \in 1..Len(ge_requests) :
       \E c, e \in 1..Len(ge_requests[r]) :
          /\ ge_chunks[ge_requests[r][c].id].ntok > MAX_TOKENS_PER_CHUNK
          /\ ge_requests[r][c].ntok = MAX_TOKENS_PER_CHUNK
          /\ ge_requests[r][c].lo = 0
          /\ ge_chunks[ge_requests[r][e].id].ntok = MAX_TOKENS_PER_CHUNK
          /\ ge_requests[r][e] = ge_chunks[ge_requests[r][e].id]

\* ceil(n / b) for n >= 0 and b >= 1
CeilDiv(n, b) == (n + b - 1) \div b

RECURSIVE RequestedIds(_)
\* The input positions of the chunks the requests carried, request after
\* request
RequestedIds(requests) ==
    IF requests = <<>> THEN <<>>
    ELSE [c \in 1..Len(Head(requests)) |-> Head(requests)[c].id]
         \o RequestedIds(Tail(requests))

\* C16: when generate_embeddings returns for n input chunks without any
\* attempt having failed and with batch size b >= 1, it has made exactly
\* ceil(n / b) requests (none for n = 0, where it returns [], one for
\* n = 1), each of them carrying between 1 and b chunks, and the chunks
\* of the requests taken one request after the other are the input chunks
\* 1..n in input order.
C16_OneRequestPerBatch ==
    (ge_pc = "returned" /\ ge_failures = 0)
    => LET n == Len(ge_chunks)
       IN  /\ n = 0 => (ge_requests = <<>> /\ ge_result = <<>>)
           /\ n = 1 => Len(ge_requests) = 1
           /\ (n >= 1 /\ ge_batch_size >= 1)
                => /\ Len(ge_requests) = CeilDiv(n, ge_batch_size)
                   /\ \A r \in 1..Len(ge_requests) :
                        /\ Len(ge_requests[r]) >= 1
                        /\ Len(ge_requests[r]) <= ge_batch_size
                   /\ RequestedIds(ge_requests) = [j \in 1..n |-> j]

\* C16 witness: three chunks in batches of two returned without a failed
\* attempt after two requests, of two chunks and of one.
C16_Witness ==
    /\ ge_pc = "returned"
    /\ ge_failures = 0
    /\ Len(ge_chunks) = 3
    /\ ge_batch_size_arg = 2
    /\ Len(ge_requests) = 2
    /\ Len(ge_requests[1]) = 2
    /\ Len(ge_requests[2]) = 1

\* C6: whenever generate_embeddings fails, on either path, its caller
\* receives the dedicated "Failed to generate embeddings" condition.
C6_DedicatedFailure ==
    ge_pc = "raised" => ge_error = EMBEDDING_FAILED

---------------------------------------------------------------------------
(* Claims about _process_query *)

\* The vectors the stored embeddings of the model were written from
WrittenVectors == {<<1, 0>>, <<5, 12>>, <<4, 3, 0>>}

\* The vector a stored embedding holds: the native list itself, or the list
\* the JSON string was dumped from; ok is FALSE for a string that is the
\* dump of no vector
HeldVector(embedding) ==
    IF embedding.kind = "list"
    THEN [ok |-> TRUE, vec |-> embedding.items]
    ELSE IF \E v \in WrittenVectors : JsonDumps(v) = embedding.text
    THEN [ok |-> TRUE,
          vec |-> CHOOSE v \in WrittenVectors : JsonDumps(v) = embedding.text]
    ELSE [ok |-> FALSE, vec |-> <<>>]

\* A candidate that holds a vector of the query's dimension
Compatible(doc) ==
    HeldVector(doc.embedding).ok
    /\ Len(HeldVector(doc.embedding).vec) = Len(q_query_vec)

\* A candidate that holds a vector of another dimension
Mismatched(doc) ==
    HeldVector(doc.embedding).ok
    /\ Len(HeldVector(doc.embedding).vec) # Len(q_query_vec)

\* The similarity score of the collected candidate at position p
ScoreAt(p) ==
    CosineSimilarity(q_query_vec, HeldVector(q_valid_docs[p].embedding).vec)

\* Position p comes before position r in the descending order of the
\* scores with ties in candidate order
Before(p, r) ==
    ScoreAt(p) > ScoreAt(r) \/ (ScoreAt(p) = ScoreAt(r) /\ p < r)

\* The place of position p in that order
RankOf(p) == 1 + Cardinality({r \in 1..Len(q_valid_docs) : Before(r, p)})

\* A query that returned chunks
ReturnedChunks ==
    /\ q_pc = "done"
    /\ q_response.status = 200
    /\ q_response.has_chunks
    /\ Len(q_valid_docs) >= 1

\* C7: when at least one compatible candidate was collected and k >= 1,
\* the chunks returned are the first k (all, if fewer) of the collected
\* candidates in descending order of score with ties in candidate order,
\* each with its score rounded to 4 decimals; so the returned scores never
\* increase.
C7_TopKStableDescending ==
    (ReturnedChunks /\ q_k >= 1)
    => LET chunks == q_response.chunks
       IN  /\ Len(chunks) = Min(q_k, Len(q_valid_docs))
           /\ \A p \in 1..Len(q_valid_docs) :
                RankOf(p) <= q_k
                => chunks[RankOf(p)] =
                     [id |-> q_valid_docs[p].id,
                      filename |-> q_valid_docs[p].filename,
                      chunk_id |-> q_valid_docs[p].chunk_id,
                      score |-> Round4(ScoreAt(p))]
           /\ \A c \in 1..(Len(chunks) - 1) : chunks[c].score >= chunks[c + 1].score

\* C7 witness: k = 2 over three collected candidates, the first of them
\* with the lowest score and the other two tied: the tied two are returned
\* in candidate order.
C7_Witness ==
    /\ ReturnedChunks
    /\ q_k = 2
    /\ Len(q_valid_docs) = 3
    /\ ScoreAt(1) < ScoreAt(2)
    /\ ScoreAt(2) = ScoreAt(3)
    /\ Len(q_response.chunks) = 2
    /\ q_response.chunks[1].id = q_valid_docs[2].id
    /\ q_response.chunks[2].id = q_valid_docs[3].id

\* The lookup came back with at least one candidate and every candidate
\* holds a vector whose length differs from the query vector's
AllCandidatesMismatched ==
    /\ q_all_docs # <<>>
    /\ \A c \in 1..Len(q_all_docs) : Mismatched(q_all_docs[c])

\* C8: when at least one candidate exists and every candidate's vector
\* length differs from the query vector's, the query ends with status 200,
\* the dimension-mismatch answer and an empty chunk list.
C8_AllMismatchedIsSoft ==
    (q_pc = "done" /\ AllCandidatesMismatched)
    => /\ q_response.status = 200
       /\ q_response.answer = MISMATCH_ANSWER
       /\ q_response.chunks = <<>>

\* The query was embedded and the lookup came back with no candidate
LookupFoundNothing ==
    /\ q_pc = "done"
    /\ q_query_vec # <<>>
    /\ q_exc.detail # FETCH_FAILED_DETAIL
    /\ FetchDocs(q_store, q_document_ids) = <<>>

\* C9: when the lookup yields no candidate the request ends in the
\* not-found outcome, status 404 with the "No document embeddings found"
\* detail, and not in the status 500 of an internal failure.
C9_NoCandidatesIsNotFound ==
    LookupFoundNothing
    => /\ q_response.status = 404
       /\ q_response.detail = NOT_FOUND_DETAIL

\* The candidates the scan loop has taken so far
Scanned == SubSeq(q_all_docs, 1, q_scanned)

\* C10: at every point of the scan the collected candidates are exactly
\* the scanned candidates that hold a vector of the query's length, in
\* scan order, each with its vector; the skipped count is the number of
\* scanned candidates holding a vector of another length (undecodable
\* ones are not counted); the scan stops only at the end of the candidates
\* or at the cap; and every collected candidate then gets a score.
C10_BadCandidatesSkippedIndividually ==
    /\ q_valid_docs = SelectSeq(Scanned, Compatible)
    /\ \A p \in 1..Len(q_valid_docs) :
         /\ p <= Len(q_valid_embeddings)
         /\ q_valid_embeddings[p] = HeldVector(q_valid_docs[p].embedding).vec
    /\ q_skipped_count = Len(SelectSeq(Scanned, Mismatched))
    /\ (q_pc \in {"answer", "done"} /\ q_all_docs # <<>>)
         => /\ \/ q_scanned = Len(q_all_docs)
               \/ Len(q_valid_docs) >= Min(5 * q_k, 100)
            /\ Len(q_results) = Len(q_valid_docs)
            /\ \A p \in 1..Len(q_valid_docs) :
                 /\ q_results[p].doc = q_valid_docs[p]
                 /\ q_results[p].score = ScoreAt(p)

\* C10 witness: the scan took an undecodable string, then a vector of
\* another length, then a JSON-string vector of the query's length, and
\* the last one was collected and scored.
C10_Witness ==
    /\ q_pc = "answer"
    /\ q_scanned = 3
    /\ ~HeldVector(q_all_docs[1].embedding).ok
    /\ Mismatched(q_all_docs[2])
    /\ Compatible(q_all_docs[3])
    /\ q_all_docs[3].embedding.kind = "str"
    /\ q_skipped_count = 1
    /\ Len(q_results) = 1
    /\ q_results[1].doc = q_all_docs[3]

---------------------------------------------------------------------------
(* Claims about the table under upload and delete *)

\* The records of the table with a filename other than f
RecordsOfOthers(store, f) == SelectSeq(store, LAMBDA r : r.filename # f)

\* The table holds at least one record with filename f
Holds(store, f) == \E j \in 1..Len(store) : store[j].filename = f

\* C11: a delete request for filename f never changes a record of another
\* filename; when the table holds a chunk of f and the database calls
\* succeed it ends with 204 and no record of f is left; when the table
\* holds no chunk of f and the lookup succeeds it ends with 404 and the
\* table is as it was.
C11_DeleteRemovesExactlyThatFile ==
    [][(st_requests' = st_requests + 1 /\ st_response'.op = "delete")
       => LET f == st_response'.filename
          IN  /\ RecordsOfOthers(st_store', f) = RecordsOfOthers(st_store, f)
              /\ (Holds(st_store, f) /\ st_response'.status # 500)
                   => /\ st_response'.status = 204
                      /\ ~Holds(st_store', f)
              /\ (~Holds(st_store, f) /\ st_response'.status # 500)
                   => /\ st_response'.status = 404
                      /\ st_store' = st_store]_vars

\* C11 witness: a delete ended with 204 having removed two records, and
\* the table still holds a record of another filename.
C11_Witness ==
    /\ st_response.op = "delete"
    /\ st_response.status = 204
    /\ st_response.count = 2
    /\ st_store # <<>>
    /\ ~Holds(st_store, st_response.filename)

\* The chunk_id values stored for filename f, in storage order
ChunkIdsOf(f) ==
    LET records == SelectSeq(st_store, LAMBDA r : r.filename = f)
    IN  [j \in 1..Len(records) |-> records[j].chunk_id]

\* C12: after any sequence of upload and delete requests, for every
\* filename the stored chunk_id values are pairwise distinct and are
\* exactly 0..n-1, n being the number of records of the filename.
C12_ChunkIdsDense ==
    \A f \in Filenames :
       LET ids == ChunkIdsOf(f)
       IN  /\ \A a, b \in 1..Len(ids) : a # b => ids[a] # ids[b]
           /\ {ids[j] : j \in 1..Len(ids)} = 0..(Len(ids) - 1)

---------------------------------------------------------------------------
(* Further claims about _process_query *)

\* Candidates c and d of all_docs hold the same vector, one as a JSON
\* string and the other as a native list
SameVectorTwoFormats(c, d) ==
    /\ q_all_docs[c].embedding.kind = "str"
    /\ q_all_docs[d].embedding.kind = "list"
    /\ HeldVector(q_all_docs[c].embedding).ok
    /\ HeldVector(q_all_docs[c].embedding) = HeldVector(q_all_docs[d].embedding)

\* The candidate at position c of all_docs was collected
Collected(c) ==
    \E p \in 1..Len(q_valid_docs) : q_valid_docs[p] = q_all_docs[c]

RequestedFilenames == {q_document_ids[j] : j \in 1..Len(q_document_ids)}

\* C18: when the request names documents, every candidate fetched, every
\* candidate collected, every chunk selected and every chunk of the
\* response has a filename the request named.
C18_FilterRestrictsCandidates ==
    q_document_ids # <<>>
    => /\ \A c \in 1..Len(q_all_docs) :
            q_all_docs[c].filename \in RequestedFilenames
       /\ \A p \in 1..Len(q_valid_docs) :
            q_valid_docs[p].filename \in RequestedFilenames
       /\ \A c \in 1..Len(q_top_chunks) :
            q_top_chunks[c].filename \in RequestedFilenames
       /\ \A c \in 1..Len(q_response.chunks) :
            q_response.chunks[c].filename \in RequestedFilenames

\* C18 witness: a query naming a.pdf returned a chunk while the table also
\* holds a record of b.pdf with a vector of the query's dimension.
C18_Witness ==
    /\ q_pc = "done"
    /\ q_document_ids = <<"a.pdf">>
    /\ q_response.status = 200
    /\ Len(q_response.chunks) >= 1
    /\ \E j \in 1..Len(q_store) :
         /\ q_store[j].filename = "b.pdf"
         /\ Compatible(q_store[j])

\* The response of the same query had the answer been generated
ResponseHadGenerationSucceeded ==
    Ok200("generated answer", q_include_chunks,
          IF q_include_chunks THEN q_top_chunks ELSE <<>>)

\* C19: when the chat completion call fails after the top-k chunks were
\* selected, the query ends with status 200, the fixed fallback answer and
\* the chunks it would have returned had the call succeeded.
C19_GenerationFailureFallsBack ==
    (q_pc = "done" /\ q_llm = "failed")
    => /\ q_response.status = 200
       /\ q_response.answer = FALLBACK_ANSWER
       /\ q_response.has_chunks = ResponseHadGenerationSucceeded.has_chunks
       /\ q_response.chunks = ResponseHadGenerationSucceeded.chunks

\* C19 witness: the call failed for a query whose response carries two
\* chunks.
C19_Witness ==
    /\ q_pc = "done"
    /\ q_llm = "failed"
    /\ q_include_chunks
    /\ Len(q_top_chunks) = 2
    /\ q_response.chunks = q_top_chunks
    /\ q_response.answer = FALLBACK_ANSWER

---------------------------------------------------------------------------
(* Claims about process_document *)

\* The text the content stands for: the str itself, or the bytes decoded
\* as UTF-8 and, when they are not valid UTF-8, one character per byte
TextOfContent ==
    IF pd_content.kind = "str" THEN pd_content.data
    ELSE IF Utf8Decode(pd_content.data).ok THEN Utf8Decode(pd_content.data).text
    ELSE Latin1Decode(pd_content.data)

\* The content is a str or bytes whose text is empty or whitespace only
ContentIsBlank ==
    /\ pd_content.kind \in {"str", "bytes"}
    /\ \A j \in 1..Len(TextOfContent) : TextOfContent[j] \in {" ", "nbsp"}

\* C20: process_document on a content that is empty or whitespace only
\* after decoding returns no chunks, no vectors and the zero statistics at
\* once: chunk_text and generate_embeddings are not called and no request
\* goes to the embedding service.
C20_BlankContentShortCircuits ==
    (ContentIsBlank /\ pd_pc # "call")
    => /\ pd_pc = "done"
       /\ pd_result.chunks = <<>>
       /\ pd_result.embeddings = <<>>
       /\ pd_result.stats = ZERO_STATS
       /\ ck_pc = "idle"
       /\ ge_pc = "idle"
       /\ ge_requests = <<>>

\* C20 witness: bytes that are not valid UTF-8 and decode byte by byte to
\* whitespace only were answered with the empty result.
C20_Witness ==
    /\ pd_pc = "done"
    /\ pd_content.kind = "bytes"
    /\ pd_content.data # <<>>
    /\ ~Utf8Decode(pd_content.data).ok
    /\ ContentIsBlank
    /\ pd_result = NoResult
    /\ ge_requests = <<>>

---------------------------------------------------------------------------
(* Claims about upload_document and list_documents *)

\* The last upload read a content that is empty or whitespace only
UploadReadBlank ==
    /\ st_content.kind = "str"
    /\ \A j \in 1..Len(st_content.data) : st_content.data[j] \in {" ", "nbsp"}

\* C21: an upload that extracted an empty or whitespace-only content is
\* answered in its one step with status 400 and the detail 'Document
\* appears to be empty'; process_document, the only way to the embedding
\* service, is not called and the table is left as it was.
C21_BlankUploadRejected ==
    [][(st_response'.op = "upload" /\ st_requests' = st_requests + 1
        /\ UploadReadBlank')
       => /\ st_response'.status = 400
          /\ st_response'.detail = EMPTY_DOCUMENT_DETAIL
          /\ ~st_processed'.called
          /\ st_store' = st_store]_vars

\* C21 witness: after an upload that stored records, an upload of
\* whitespace only was answered 400 and the records are all there is.
C21_Witness ==
    /\ st_response.op = "upload"
    /\ st_response.status = 400
    /\ st_response.detail = EMPTY_DOCUMENT_DETAIL
    /\ UploadReadBlank
    /\ st_content.data # <<>>
    /\ ~st_processed.called
    /\ Len(st_store) = 2

---------------------------------------------------------------------------
(* Claims about the parameters of chunk_text and generate_embeddings *)

\* The value a call is to use for a parameter: the one supplied, and the
\* setting when none was
Effective(arg, setting) == IF arg = None THEN setting ELSE arg

\* C22: a call of chunk_text on a text that is not empty, with chunk_size
\* omitted or >= 1 and overlap omitted or >= 0, works with the chunk_size
\* and the overlap it was given and with CHUNK_SIZE, CHUNK_OVERLAP for the
\* ones omitted.
C22_SuppliedValuesUsed ==
    (/\ ck_pc \in {"loop", "done"}
     /\ ck_text # <<>>
     /\ (ck_chunk_size_arg = None \/ ck_chunk_size_arg >= 1)
     /\ (ck_overlap_arg = None \/ ck_overlap_arg >= 0))
    => /\ ck_chunk_size = Effective(ck_chunk_size_arg, CHUNK_SIZE)
       /\ ck_overlap = Effective(ck_overlap_arg, CHUNK_OVERLAP)

\* The records a step added at the end of the table
AppendedRecords == SubSeq(st_store', Len(st_store) + 1, Len(st_store'))

\* C23: an upload request leaves every record the table had in its place
\* and unmodified, and adds either nothing or one record for each of the
\* chunks process_document returned, with chunk_id 0..n-1 in this order and
\* each holding the chunk and the vector of its position.
C23_UploadAllOrNothing ==
    [][(st_response'.op = "upload" /\ st_requests' = st_requests + 1)
       => /\ Len(st_store') >= Len(st_store)
          /\ SubSeq(st_store', 1, Len(st_store)) = st_store
          /\ \/ AppendedRecords = <<>>
             \/ /\ Len(AppendedRecords) = st_processed'.chunks
                /\ \A j \in 1..Len(AppendedRecords) :
                     /\ AppendedRecords[j].filename = st_response'.filename
                     /\ AppendedRecords[j].chunk_id = j - 1
                     /\ AppendedRecords[j].chunk_text = j
                     /\ AppendedRecords[j].embedding = j]_vars

\* The positions of the table that hold a record of filename f
PositionsOf(f) == {j \in 1..Len(st_store) : st_store[j].filename = f}

\* C24: a document list that list_documents returns has, for every
\* filename with at least one record, exactly one entry, whatever the
\* number of its records, and this entry carries a creation time of one of
\* the filename's records than which none is earlier; it has no entry for
\* any other filename.
C24_ListOnePerFilename ==
    [][(st_response'.op = "list" /\ st_requests' = st_requests + 1
        /\ st_response'.status = 200)
       => /\ \A f \in UploadNames :
               Cardinality({j \in 1..Len(st_documents') :
                              st_documents'[j].filename = f})
               = IF PositionsOf(f) # {} THEN 1 ELSE 0
          /\ \A j \in 1..Len(st_documents') :
               LET f == st_documents'[j].filename
               IN  /\ f \in UploadNames
                   /\ \E p \in PositionsOf(f) :
                        st_documents'[j].upload_time = st_store[p].created_at
                   /\ \A p \in PositionsOf(f) :
                        st_documents'[j].upload_time <= st_store[p].created_at]_vars

\* C24 witness: a list with one entry for a filename that was uploaded
\* twice, at different times, and has three records or more.
C24_Witness ==
    /\ st_response.op = "list"
    /\ st_response.status = 200
    /\ Len(st_documents) = 1
    /\ Len(st_store) >= 3
    /\ \E p, r \in 1..Len(st_store) :
         st_store[p].created_at # st_store[r].created_at

---------------------------------------------------------------------------
(* Claims about the candidate scan of _process_query *)

\* min(5k, 100)
ScanCap(k) == IF 5 * k < 100 THEN 5 * k ELSE 100

---------------------------------------------------------------------------
(* Further claims about chunk_text *)

\* Chunk c holds a token index that chunk c - 1 does not hold
HoldsNewToken(c) ==
    \E t \in ck_chunks[c].lo..(ck_chunks[c].hi - 1) :
       ~(ck_chunks[c - 1].lo <= t /\ t < ck_chunks[c - 1].hi)

\* C26: when chunk_text returns from a call with chunk_size >= 1 and
\* 1 <= overlap < chunk_size, every returned chunk after the first, the
\* final tail chunk included, holds at least one token index that the chunk
\* returned immediately before it does not hold.
C26_TailHoldsNewTokens ==
    (/\ ck_pc = "done"
     /\ ck_chunk_size_arg >= 1
     /\ ck_overlap_arg >= 1
     /\ ck_overlap_arg < ck_chunk_size_arg)
    => \A c \in 2..Len(ck_chunks) : HoldsNewToken(c)

\* The lookup came back with a candidate that holds a decodable vector of
\* the query vector's length
HasUsableCandidate ==
    \E c \in 1..Len(q_all_docs) : Compatible(q_all_docs[c])

\* C27: for every k the endpoint accepts, a query whose lookup returned at
\* least one candidate with a decodable vector of the query's dimension
\* ends with status 200 and an answer other than the dimension-mismatch
\* one, whatever the other candidates hold: not in the not-found outcome
\* and not in a status 500.
C27_UsableCandidateAnswers ==
    (q_pc = "done" /\ HasUsableCandidate)
    => /\ q_response.status = 200
       /\ q_response.answer # MISMATCH_ANSWER

---------------------------------------------------------------------------
(* Further claims about process_document *)

\* The text of the chunk at position j of the returned chunk list, as a
\* text of the service's input
ReturnedChunkText(j) ==
    [id |-> j, lo |-> 0,
     ntok |-> pd_result.chunks[j].hi - pd_result.chunks[j].lo]

\* C28: when process_document returns, it returns as many vectors as
\* chunks and the vector at every position is the embedding of exactly the
\* text of the chunk returned at this position.
C28_ChunkAndVectorSameText ==
    pd_pc = "done"
    => /\ Len(pd_result.embeddings) = Len(pd_result.chunks)
       /\ \A j \in 1..Len(pd_result.chunks) :
            pd_result.embeddings[j] = EmbeddingOf(ReturnedChunkText(j))

---------------------------------------------------------------------------
(* Further claims about generate_embeddings *)

\* The step is the successful call of a batch of the batched path
BatchCallSucceeds ==
    /\ ge_pc = "batch"
    /\ Len(ge_embeddings') > Len(ge_embeddings)

\* Chunks are left for a batch after the current one
MoreBatches == ge_i + ge_batch_size < Len(ge_validated)

\* C29: in the batched path the successful call of a batch that is not the
\* last is followed at once by the delay, and the call of the next batch
\* starts only from the delay; the successful call of the last batch is
\* followed by the return without a delay; a delay is taken nowhere else,
\* so a run that returns has taken one delay less than it had batches and
\* the empty and the single-chunk runs none.
C29_DelayBetweenBatches ==
    [][/\ (BatchCallSucceeds /\ MoreBatches) => ge_pc' = "sleep"
       /\ (BatchCallSucceeds /\ ~MoreBatches)
          => (ge_pc' = "returned" /\ ge_sleeps' = ge_sleeps)
       /\ (ge_pc' = "batch" /\ ge_i' # ge_i)
          => (ge_pc = "sleep" /\ ge_sleeps' = ge_sleeps + 1)
       /\ ge_sleeps' # ge_sleeps => ge_pc = "sleep"
       /\ (ge_pc' = "returned" /\ Len(ge_chunks') <= 1) => ge_sleeps' = 0
       /\ (ge_pc' = "returned" /\ Len(ge_chunks') >= 2)
          => ge_sleeps' = CeilDiv(Len(ge_chunks'), ge_batch_size') - 1]_vars

\* C29 witness: a run of three batches, one of whose calls was retried,
\* returned after two delays.
C29_Witness ==
    /\ ge_pc = "returned"
    /\ Len(ge_chunks) = 3
    /\ ge_batch_size = 1
    /\ ge_failures >= 1
    /\ ge_sleeps = 2

---------------------------------------------------------------------------
(* Claims about upload requests in flight at the same time *)

\* What a record says about its chunk: all but the id and the time
Pairing(record) ==
    [filename |-> record.filename, chunk_id |-> record.chunk_id,
     chunk_text |-> record.chunk_text, embedding |-> record.embedding]

\* The records of the table under the filename of request r, in the order
\* of the table
StoredFor(r) ==
    LET records == SelectSeq(st_store, LAMBDA d : d.filename = FilenameOf(r))
    IN  [j \in 1..Len(records) |-> Pairing(records[j])]

\* Request r has committed
Committed(r) ==
    /\ up_req[r].pc = "done"
    /\ \/ up_req[r].response.status = 200
       \/ up_req[r].response.detail = DATABASE_ERROR_DETAIL

\* What request r stores when it runs alone, with the same document and
\* the same inserts failing: its chunks in order, chunk j - 1 with the text
\* of its chunk j and the vector of this text
SoloRecords(r) ==
    LET kept == SeqOfSet((1..up_req[r].n) \ up_req[r].failed)
    IN  [j \in 1..Len(kept) |->
           [filename |-> FilenameOf(r), chunk_id |-> kept[j] - 1,
            chunk_text |-> [id |-> kept[j], lo |-> 0, ntok |-> 1,
                            doc |-> FilenameOf(r)],
            embedding |-> [vector_of |-> [id |-> kept[j], lo |-> 0, ntok |-> 1,
                                          doc |-> FilenameOf(r)]]]]

\* C30: under every interleaving of two upload requests for different
\* filenames, the table holds under the filename of a request nothing
\* until the request has committed and from then on exactly the records
\* the request stores when it runs alone; every record holds a chunk and a
\* vector of the document of its filename; and a request in which no
\* insert failed stores one record per chunk, with chunk_id 0..n-1.
C30_ConcurrentUploadsIsolated ==
    /\ \A r \in Requests :
         /\ StoredFor(r) = IF Committed(r) THEN SoloRecords(r) ELSE <<>>
         /\ (Committed(r) /\ up_req[r].failed = {})
            => /\ Len(StoredFor(r)) = up_req[r].n
               /\ \A j \in 1..Len(StoredFor(r)) :
                    StoredFor(r)[j].chunk_id = j - 1
    /\ \A j \in 1..Len(st_store) :
         /\ st_store[j].chunk_text.doc = st_store[j].filename
         /\ st_store[j].embedding.vector_of.doc = st_store[j].filename
    /\ Len(st_store) = Len(StoredFor(1)) + Len(StoredFor(2))

\* C30 witness: both requests went through two batches, the first after a
\* retry, and were answered 200; the table holds the records of b.pdf
\* before those of a.pdf, each with all its chunks.
C30_Witness ==
    /\ \A r \in Requests :
         /\ up_req[r].pc = "done"
         /\ up_req[r].response.status = 200
         /\ up_req[r].n = MaxBatchedChunks
         /\ up_req[r].failed = {}
    /\ up_req[1].attempts >= 1
    /\ Len(st_store) = 2 * MaxBatchedChunks
    /\ st_store[1].filename = "b.pdf"
    /\ st_store[Len(st_store)].filename = "a.pdf"

=============================================================================
